---- MODULE Spec2Model ----
(***************************************************************************)
(* A model of app.py: a Flask application that proxies video downloads     *)
(* through yt-dlp, keeps each download in a temporary directory, and       *)
(* stores issue reports as JSON files.                                     *)
(*                                                                         *)
(* Python strings are sequences of code points, so that the substring      *)
(* tests, the regular-expression classes and str.strip of the code are     *)
(* computed on characters, Unicode included.                               *)
(***************************************************************************)
EXTENDS Integers, Sequences, FiniteSets, TLC

VARIABLES
    sanIn,      \* sanitize_filename: the argument
    sanOut,     \* sanitize_filename: <<the returned string>>, <<>> before the call
    optUrl,     \* get_platform_specific_options: the argument
    optOut,     \* get_platform_specific_options: <<the returned dict>>, <<>> before the call
    workers,    \* the workers, each handling one POST /download request
    ffmpegState, \* how running ffmpeg -version ends on the host
    req,        \* download_video: the locals of each worker's request
    fs,         \* the temporary directories that exist, each with its files
    healthLog,  \* GET /health: the responses given, in order, each with the
                \* state ffmpeg was in
    clock,      \* the time datetime.now() reads, in ticks
    issueReq,   \* report_issue: the locals of each request
    issues      \* the files of the issues directory, each with its document

sanVars == <<sanIn, sanOut>>
optVars == <<optUrl, optOut>>
dlVars == <<workers, ffmpegState, req, fs, healthLog>>
issueVars == <<clock, issueReq, issues>>
vars == <<sanVars, optVars, dlVars, issueVars>>

\* ------------------------------------------------------------------------
\* Bounds of the model
\* ------------------------------------------------------------------------

\* longest short string given to sanitize_filename; long inputs are a run of
\* letters followed by such a string
MaxLen == 3

\* largest number of pieces a URL given to get_platform_specific_options is
\* made of
MaxUrlParts == 2

\* number of names tempfile.mkdtemp chooses from
MaxDirs == 2

\* number of GET /health requests
MaxHealth == 5

\* number of POST /report-issue requests
NumReports == 2

\* the last tick of the clock, and the ticks in a second
MaxClock == 2
TicksPerSecond == 2

\* ------------------------------------------------------------------------
\* The parts of the state a specification leaves unused
\* ------------------------------------------------------------------------

SanIdle == sanIn = <<>> /\ sanOut = <<>>
OptIdle == optUrl = <<>> /\ optOut = <<>>
DlIdle ==
    /\ workers = {}
    /\ ffmpegState = "ok"
    /\ req = <<>>
    /\ fs = <<>>
    /\ healthLog = <<>>
IssueIdle == clock = 0 /\ issueReq = <<>> /\ issues = <<>>

\* ------------------------------------------------------------------------
\* Python string operations
\* ------------------------------------------------------------------------

Max(S) == CHOOSE x \in S : \A y \in S : y <= x
Min(S) == CHOOSE x \in S : \A y \in S : x <= y

\* needle in hay
Contains(hay, needle) ==
    \E i \in 0..(Len(hay) - Len(needle)) :
        SubSeq(hay, i + 1, i + Len(needle)) = needle

\* s.endswith(suffix)
EndsWith(s, suffix) ==
    /\ Len(suffix) <= Len(s)
    /\ SubSeq(s, Len(s) - Len(suffix) + 1, Len(s)) = suffix

\* c lies in one of the ranges <<first, last>>
InRanges(c, ranges) == \E r \in ranges : r[1] <= c /\ c <= r[2]

\* the characters str.isspace() holds for, which are those \s matches in a
\* str pattern: \t \n \x0b \f \r, \x1c..\x1f, space, \x85, \xa0 and the
\* Unicode spaces
Whitespace ==
    9..13 \cup 28..32 \cup {133, 160, 5760} \cup 8192..8202
    \cup {8232, 8233, 8239, 8287, 12288}

\* the word characters of a str pattern: the alphanumeric characters of
\* Unicode and the underscore (0-9, A-Z, _, a-z below 128)
WordRangesOther ==
    {<<170,170>>, <<178,179>>, <<181,181>>, <<185,186>>, <<188,190>>,
     <<192,214>>, <<216,246>>, <<248,705>>, <<710,721>>, <<736,740>>,
     <<748,748>>, <<750,750>>, <<880,884>>, <<886,887>>, <<890,893>>,
     <<895,895>>, <<902,902>>, <<904,906>>, <<908,908>>, <<910,929>>,
     <<931,1013>>, <<1015,1153>>, <<1162,1327>>, <<1329,1366>>,
     <<1369,1369>>, <<1376,1416>>, <<1488,1514>>, <<1519,1522>>,
     <<1568,1610>>, <<1632,1641>>, <<1646,1647>>, <<1649,1747>>,
     <<1749,1749>>, <<1765,1766>>, <<1774,1788>>, <<1791,1791>>,
     <<1808,1808>>, <<1810,1839>>, <<1869,1957>>, <<1969,1969>>,
     <<1984,2026>>, <<2036,2037>>, <<2042,2042>>, <<2048,2069>>,
     <<2074,2074>>, <<2084,2084>>, <<2088,2088>>, <<2112,2136>>,
     <<2144,2154>>, <<2160,2183>>, <<2185,2190>>, <<2208,2249>>,
     <<2308,2361>>, <<2365,2365>>, <<2384,2384>>, <<2392,2401>>,
     <<2406,2415>>, <<2417,2432>>, <<2437,2444>>, <<2447,2448>>,
     <<2451,2472>>, <<2474,2480>>, <<2482,2482>>, <<2486,2489>>,
     <<2493,2493>>, <<2510,2510>>, <<2524,2525>>, <<2527,2529>>,
     <<2534,2545>>, <<2548,2553>>, <<2556,2556>>, <<2565,2570>>,
     <<2575,2576>>, <<2579,2600>>, <<2602,2608>>, <<2610,2611>>,
     <<2613,2614>>, <<2616,2617>>, <<2649,2652>>, <<2654,2654>>,
     <<2662,2671>>, <<2674,2676>>, <<2693,2701>>, <<2703,2705>>,
     <<2707,2728>>, <<2730,2736>>, <<2738,2739>>, <<2741,2745>>,
     <<2749,2749>>, <<2768,2768>>, <<2784,2785>>, <<2790,2799>>,
     <<2809,2809>>, <<2821,2828>>, <<2831,2832>>, <<2835,2856>>,
     <<2858,2864>>, <<2866,2867>>, <<2869,2873>>, <<2877,2877>>,
     <<2908,2909>>, <<2911,2913>>, <<2918,2927>>, <<2929,2935>>,
     <<2947,2947>>, <<2949,2954>>, <<2958,2960>>, <<2962,2965>>,
     <<2969,2970>>, <<2972,2972>>, <<2974,2975>>, <<2979,2980>>,
     <<2984,2986>>, <<2990,3001>>, <<3024,3024>>, <<3046,3058>>,
     <<3077,3084>>, <<3086,3088>>, <<3090,3112>>, <<3114,3129>>,
     <<3133,3133>>, <<3160,3162>>, <<3165,3165>>, <<3168,3169>>,
     <<3174,3183>>, <<3192,3198>>, <<3200,3200>>, <<3205,3212>>,
     <<3214,3216>>, <<3218,3240>>, <<3242,3251>>, <<3253,3257>>,
     <<3261,3261>>, <<3293,3294>>, <<3296,3297>>, <<3302,3311>>,
     <<3313,3314>>, <<3332,3340>>, <<3342,3344>>, <<3346,3386>>,
     <<3389,3389>>, <<3406,3406>>, <<3412,3414>>, <<3416,3425>>,
     <<3430,3448>>, <<3450,3455>>, <<3461,3478>>, <<3482,3505>>,
     <<3507,3515>>, <<3517,3517>>, <<3520,3526>>, <<3558,3567>>,
     <<3585,3632>>, <<3634,3635>>, <<3648,3654>>, <<3664,3673>>,
     <<3713,3714>>, <<3716,3716>>, <<3718,3722>>, <<3724,3747>>,
     <<3749,3749>>, <<3751,3760>>, <<3762,3763>>, <<3773,3773>>,
     <<3776,3780>>, <<3782,3782>>, <<3792,3801>>, <<3804,3807>>,
     <<3840,3840>>, <<3872,3891>>, <<3904,3911>>, <<3913,3948>>,
     <<3976,3980>>, <<4096,4138>>, <<4159,4169>>, <<4176,4181>>,
     <<4186,4189>>, <<4193,4193>>, <<4197,4198>>, <<4206,4208>>,
     <<4213,4225>>, <<4238,4238>>, <<4240,4249>>, <<4256,4293>>,
     <<4295,4295>>, <<4301,4301>>, <<4304,4346>>, <<4348,4680>>,
     <<4682,4685>>, <<4688,4694>>, <<4696,4696>>, <<4698,4701>>,
     <<4704,4744>>, <<4746,4749>>, <<4752,4784>>, <<4786,4789>>,
     <<4792,4798>>, <<4800,4800>>, <<4802,4805>>, <<4808,4822>>,
     <<4824,4880>>, <<4882,4885>>, <<4888,4954>>, <<4969,4988>>,
     <<4992,5007>>, <<5024,5109>>, <<5112,5117>>, <<5121,5740>>,
     <<5743,5759>>, <<5761,5786>>, <<5792,5866>>, <<5870,5880>>,
     <<5888,5905>>, <<5919,5937>>, <<5952,5969>>, <<5984,5996>>,
     <<5998,6000>>, <<6016,6067>>, <<6103,6103>>, <<6108,6108>>,
     <<6112,6121>>, <<6128,6137>>, <<6160,6169>>, <<6176,6264>>,
     <<6272,6276>>, <<6279,6312>>, <<6314,6314>>, <<6320,6389>>,
     <<6400,6430>>, <<6470,6509>>, <<6512,6516>>, <<6528,6571>>,
     <<6576,6601>>, <<6608,6618>>, <<6656,6678>>, <<6688,6740>>,
     <<6784,6793>>, <<6800,6809>>, <<6823,6823>>, <<6917,6963>>,
     <<6981,6988>>, <<6992,7001>>, <<7043,7072>>, <<7086,7141>>,
     <<7168,7203>>, <<7232,7241>>, <<7245,7293>>, <<7296,7304>>,
     <<7312,7354>>, <<7357,7359>>, <<7401,7404>>, <<7406,7411>>,
     <<7413,7414>>, <<7418,7418>>, <<7424,7615>>, <<7680,7957>>,
     <<7960,7965>>, <<7968,8005>>, <<8008,8013>>, <<8016,8023>>,
     <<8025,8025>>, <<8027,8027>>, <<8029,8029>>, <<8031,8061>>,
     <<8064,8116>>, <<8118,8124>>, <<8126,8126>>, <<8130,8132>>,
     <<8134,8140>>, <<8144,8147>>, <<8150,8155>>, <<8160,8172>>,
     <<8178,8180>>, <<8182,8188>>, <<8304,8305>>, <<8308,8313>>,
     <<8319,8329>>, <<8336,8348>>, <<8450,8450>>, <<8455,8455>>,
     <<8458,8467>>, <<8469,8469>>, <<8473,8477>>, <<8484,8484>>,
     <<8486,8486>>, <<8488,8488>>, <<8490,8493>>, <<8495,8505>>,
     <<8508,8511>>, <<8517,8521>>, <<8526,8526>>, <<8528,8585>>,
     <<9312,9371>>, <<9450,9471>>, <<10102,10131>>, <<11264,11492>>,
     <<11499,11502>>, <<11506,11507>>, <<11517,11517>>, <<11520,11557>>,
     <<11559,11559>>, <<11565,11565>>, <<11568,11623>>, <<11631,11631>>,
     <<11648,11670>>, <<11680,11686>>, <<11688,11694>>, <<11696,11702>>,
     <<11704,11710>>, <<11712,11718>>, <<11720,11726>>, <<11728,11734>>,
     <<11736,11742>>, <<11823,11823>>, <<12293,12295>>, <<12321,12329>>,
     <<12337,12341>>, <<12344,12348>>, <<12353,12438>>, <<12445,12447>>,
     <<12449,12538>>, <<12540,12543>>, <<12549,12591>>, <<12593,12686>>,
     <<12690,12693>>, <<12704,12735>>, <<12784,12799>>, <<12832,12841>>,
     <<12872,12879>>, <<12881,12895>>, <<12928,12937>>, <<12977,12991>>,
     <<13312,19903>>, <<19968,42124>>, <<42192,42237>>, <<42240,42508>>,
     <<42512,42539>>, <<42560,42606>>, <<42623,42653>>, <<42656,42735>>,
     <<42775,42783>>, <<42786,42888>>, <<42891,42954>>, <<42960,42961>>,
     <<42963,42963>>, <<42965,42969>>, <<42994,43009>>, <<43011,43013>>,
     <<43015,43018>>, <<43020,43042>>, <<43056,43061>>, <<43072,43123>>,
     <<43138,43187>>, <<43216,43225>>, <<43250,43255>>, <<43259,43259>>,
     <<43261,43262>>, <<43264,43301>>, <<43312,43334>>, <<43360,43388>>,
     <<43396,43442>>, <<43471,43481>>, <<43488,43492>>, <<43494,43518>>,
     <<43520,43560>>, <<43584,43586>>, <<43588,43595>>, <<43600,43609>>,
     <<43616,43638>>, <<43642,43642>>, <<43646,43695>>, <<43697,43697>>,
     <<43701,43702>>, <<43705,43709>>, <<43712,43712>>, <<43714,43714>>,
     <<43739,43741>>, <<43744,43754>>, <<43762,43764>>, <<43777,43782>>,
     <<43785,43790>>, <<43793,43798>>, <<43808,43814>>, <<43816,43822>>,
     <<43824,43866>>, <<43868,43881>>, <<43888,44002>>, <<44016,44025>>,
     <<44032,55203>>, <<55216,55238>>, <<55243,55291>>, <<63744,64109>>,
     <<64112,64217>>, <<64256,64262>>, <<64275,64279>>, <<64285,64285>>,
     <<64287,64296>>, <<64298,64310>>, <<64312,64316>>, <<64318,64318>>,
     <<64320,64321>>, <<64323,64324>>, <<64326,64433>>, <<64467,64829>>,
     <<64848,64911>>, <<64914,64967>>, <<65008,65019>>, <<65136,65140>>,
     <<65142,65276>>, <<65296,65305>>, <<65313,65338>>, <<65345,65370>>,
     <<65382,65470>>, <<65474,65479>>, <<65482,65487>>, <<65490,65495>>,
     <<65498,65500>>, <<65536,65547>>, <<65549,65574>>, <<65576,65594>>,
     <<65596,65597>>, <<65599,65613>>, <<65616,65629>>, <<65664,65786>>,
     <<65799,65843>>, <<65856,65912>>, <<65930,65931>>, <<66176,66204>>,
     <<66208,66256>>, <<66273,66299>>, <<66304,66339>>, <<66349,66378>>,
     <<66384,66421>>, <<66432,66461>>, <<66464,66499>>, <<66504,66511>>,
     <<66513,66517>>, <<66560,66717>>, <<66720,66729>>, <<66736,66771>>,
     <<66776,66811>>, <<66816,66855>>, <<66864,66915>>, <<66928,66938>>,
     <<66940,66954>>, <<66956,66962>>, <<66964,66965>>, <<66967,66977>>,
     <<66979,66993>>, <<66995,67001>>, <<67003,67004>>, <<67072,67382>>,
     <<67392,67413>>, <<67424,67431>>, <<67456,67461>>, <<67463,67504>>,
     <<67506,67514>>, <<67584,67589>>, <<67592,67592>>, <<67594,67637>>,
     <<67639,67640>>, <<67644,67644>>, <<67647,67669>>, <<67672,67702>>,
     <<67705,67742>>, <<67751,67759>>, <<67808,67826>>, <<67828,67829>>,
     <<67835,67867>>, <<67872,67897>>, <<67968,68023>>, <<68028,68047>>,
     <<68050,68096>>, <<68112,68115>>, <<68117,68119>>, <<68121,68149>>,
     <<68160,68168>>, <<68192,68222>>, <<68224,68255>>, <<68288,68295>>,
     <<68297,68324>>, <<68331,68335>>, <<68352,68405>>, <<68416,68437>>,
     <<68440,68466>>, <<68472,68497>>, <<68521,68527>>, <<68608,68680>>,
     <<68736,68786>>, <<68800,68850>>, <<68858,68899>>, <<68912,68921>>,
     <<69216,69246>>, <<69248,69289>>, <<69296,69297>>, <<69376,69415>>,
     <<69424,69445>>, <<69457,69460>>, <<69488,69505>>, <<69552,69579>>,
     <<69600,69622>>, <<69635,69687>>, <<69714,69743>>, <<69745,69746>>,
     <<69749,69749>>, <<69763,69807>>, <<69840,69864>>, <<69872,69881>>,
     <<69891,69926>>, <<69942,69951>>, <<69956,69956>>, <<69959,69959>>,
     <<69968,70002>>, <<70006,70006>>, <<70019,70066>>, <<70081,70084>>,
     <<70096,70106>>, <<70108,70108>>, <<70113,70132>>, <<70144,70161>>,
     <<70163,70187>>, <<70272,70278>>, <<70280,70280>>, <<70282,70285>>,
     <<70287,70301>>, <<70303,70312>>, <<70320,70366>>, <<70384,70393>>,
     <<70405,70412>>, <<70415,70416>>, <<70419,70440>>, <<70442,70448>>,
     <<70450,70451>>, <<70453,70457>>, <<70461,70461>>, <<70480,70480>>,
     <<70493,70497>>, <<70656,70708>>, <<70727,70730>>, <<70736,70745>>,
     <<70751,70753>>, <<70784,70831>>, <<70852,70853>>, <<70855,70855>>,
     <<70864,70873>>, <<71040,71086>>, <<71128,71131>>, <<71168,71215>>,
     <<71236,71236>>, <<71248,71257>>, <<71296,71338>>, <<71352,71352>>,
     <<71360,71369>>, <<71424,71450>>, <<71472,71483>>, <<71488,71494>>,
     <<71680,71723>>, <<71840,71922>>, <<71935,71942>>, <<71945,71945>>,
     <<71948,71955>>, <<71957,71958>>, <<71960,71983>>, <<71999,71999>>,
     <<72001,72001>>, <<72016,72025>>, <<72096,72103>>, <<72106,72144>>,
     <<72161,72161>>, <<72163,72163>>, <<72192,72192>>, <<72203,72242>>,
     <<72250,72250>>, <<72272,72272>>, <<72284,72329>>, <<72349,72349>>,
     <<72368,72440>>, <<72704,72712>>, <<72714,72750>>, <<72768,72768>>,
     <<72784,72812>>, <<72818,72847>>, <<72960,72966>>, <<72968,72969>>,
     <<72971,73008>>, <<73030,73030>>, <<73040,73049>>, <<73056,73061>>,
     <<73063,73064>>, <<73066,73097>>, <<73112,73112>>, <<73120,73129>>,
     <<73440,73458>>, <<73648,73648>>, <<73664,73684>>, <<73728,74649>>,
     <<74752,74862>>, <<74880,75075>>, <<77712,77808>>, <<77824,78894>>,
     <<82944,83526>>, <<92160,92728>>, <<92736,92766>>, <<92768,92777>>,
     <<92784,92862>>, <<92864,92873>>, <<92880,92909>>, <<92928,92975>>,
     <<92992,92995>>, <<93008,93017>>, <<93019,93025>>, <<93027,93047>>,
     <<93053,93071>>, <<93760,93846>>, <<93952,94026>>, <<94032,94032>>,
     <<94099,94111>>, <<94176,94177>>, <<94179,94179>>, <<94208,100343>>,
     <<100352,101589>>, <<101632,101640>>, <<110576,110579>>,
     <<110581,110587>>, <<110589,110590>>, <<110592,110882>>,
     <<110928,110930>>, <<110948,110951>>, <<110960,111355>>,
     <<113664,113770>>, <<113776,113788>>, <<113792,113800>>,
     <<113808,113817>>, <<119520,119539>>, <<119648,119672>>,
     <<119808,119892>>, <<119894,119964>>, <<119966,119967>>,
     <<119970,119970>>, <<119973,119974>>, <<119977,119980>>,
     <<119982,119993>>, <<119995,119995>>, <<119997,120003>>,
     <<120005,120069>>, <<120071,120074>>, <<120077,120084>>,
     <<120086,120092>>, <<120094,120121>>, <<120123,120126>>,
     <<120128,120132>>, <<120134,120134>>, <<120138,120144>>,
     <<120146,120485>>, <<120488,120512>>, <<120514,120538>>,
     <<120540,120570>>, <<120572,120596>>, <<120598,120628>>,
     <<120630,120654>>, <<120656,120686>>, <<120688,120712>>,
     <<120714,120744>>, <<120746,120770>>, <<120772,120779>>,
     <<120782,120831>>, <<122624,122654>>, <<123136,123180>>,
     <<123191,123197>>, <<123200,123209>>, <<123214,123214>>,
     <<123536,123565>>, <<123584,123627>>, <<123632,123641>>,
     <<124896,124902>>, <<124904,124907>>, <<124909,124910>>,
     <<124912,124926>>, <<124928,125124>>, <<125127,125135>>,
     <<125184,125251>>, <<125259,125259>>, <<125264,125273>>,
     <<126065,126123>>, <<126125,126127>>, <<126129,126132>>,
     <<126209,126253>>, <<126255,126269>>, <<126464,126467>>,
     <<126469,126495>>, <<126497,126498>>, <<126500,126500>>,
     <<126503,126503>>, <<126505,126514>>, <<126516,126519>>,
     <<126521,126521>>, <<126523,126523>>, <<126530,126530>>,
     <<126535,126535>>, <<126537,126537>>, <<126539,126539>>,
     <<126541,126543>>, <<126545,126546>>, <<126548,126548>>,
     <<126551,126551>>, <<126553,126553>>, <<126555,126555>>,
     <<126557,126557>>, <<126559,126559>>, <<126561,126562>>,
     <<126564,126564>>, <<126567,126570>>, <<126572,126578>>,
     <<126580,126583>>, <<126585,126588>>, <<126590,126590>>,
     <<126592,126601>>, <<126603,126619>>, <<126625,126627>>,
     <<126629,126633>>, <<126635,126651>>, <<127232,127244>>,
     <<130032,130041>>, <<131072,173791>>, <<173824,177976>>,
     <<177984,178205>>, <<178208,183969>>, <<183984,191456>>,
     <<194560,195101>>, <<196608,201546>>}

\* \w of the re module
IsWord(c) ==
    InRanges(c, IF c < 128 THEN {<<48,57>>, <<65,90>>, <<95,95>>, <<97,122>>}
                ELSE WordRangesOther)
\* \s of the re module
IsSpace(c) == c \in Whitespace

\* s.lstrip(chars)
LStrip(s, chars) ==
    LET keep == {i \in 1..Len(s) : s[i] \notin chars}
    IN  IF keep = {} THEN <<>> ELSE SubSeq(s, Min(keep), Len(s))

\* s.rstrip(chars)
RStrip(s, chars) ==
    LET keep == {i \in 1..Len(s) : s[i] \notin chars}
    IN  IF keep = {} THEN <<>> ELSE SubSeq(s, 1, Max(keep))

\* s.strip(chars)
Strip(s, chars) == RStrip(LStrip(s, chars), chars)

\* s.strip(): whitespace
StripSpace(s) == Strip(s, Whitespace)

\* ------------------------------------------------------------------------
\* sanitize_filename
\* ------------------------------------------------------------------------

MaxNameLen == 100

InvalidChars == {60 (* < *), 62 (* > *), 58 (* : *), 34 (* " *), 47 (* / *), 92 (* \\ *), 124 (* | *), 63 (* ? *), 42 (* * *)}

\* re.sub(r'\.[^.]+$', '', filename): the last dot and what follows it, when
\* something follows it
RemoveExtension(s) ==
    LET dots == {i \in 1..Len(s) : s[i] = 46 (* . *)}
    IN  IF dots # {} /\ Max(dots) < Len(s)
        THEN SubSeq(s, 1, Max(dots) - 1)
        ELSE s

\* re.sub(r'[<>:"/\\|?*]', '', filename)
RemoveInvalid(s) == SelectSeq(s, LAMBDA c : c \notin InvalidChars)

\* re.sub(r'[^\w\s-]', ' ', filename)
ReplaceSpecial(s) ==
    [i \in 1..Len(s) |->
        IF IsWord(s[i]) \/ IsSpace(s[i]) \/ s[i] = 45 (* - *) THEN s[i] ELSE 32 (* space *)]

\* re.sub(r'\s+', ' ', filename)
CollapseSpaces(s) ==
    LET withPrev == [i \in 1..Len(s) |-> <<s[i], IF i > 1 THEN s[i - 1] ELSE -1>>]
        firsts == SelectSeq(withPrev, LAMBDA p : ~(IsSpace(p[1]) /\ IsSpace(p[2])))
    IN  [i \in 1..Len(firsts) |-> IF IsSpace(firsts[i][1]) THEN 32 (* space *) ELSE firsts[i][1]]

\* a sanitizer with no default name
DefaultName_Empty == <<>>

\* the name given to an input that is empty after cleaning
DefaultName == <<121,111,117,116,117,98,101,95,118,105,100,101,111>> (* youtube_video *)

\* filename[:MaxNameLen]
Truncate(s) == SubSeq(s, 1, IF Len(s) < MaxNameLen THEN Len(s) ELSE MaxNameLen)

\* a sanitizer that does not strip again after the length limit
FinalStrip_Skipped(s) == s

\* filename.rstrip(' _') after the length limit
FinalStrip(s) == RStrip(s, {32 (* space *), 95 (* _ *)})

sanitize_filename(filename) ==
    LET f1 == RemoveExtension(filename)
        f2 == RemoveInvalid(f1)
        f3 == ReplaceSpecial(f2)
        f4 == CollapseSpaces(f3)
        f5 == Strip(f4, {32 (* space *), 95 (* _ *)})
        f6 == IF f5 = <<>> THEN DefaultName ELSE f5
        f7 == Truncate(f6)
    IN  FinalStrip(f7)

\* the characters the inputs are made of: a letter, a letter outside ASCII,
\* the underscore, a space, a vertical tab, a dot, a hyphen, a character
\* the code removes and one it replaces
SanAlphabet == {97 (* a *), 233 (* \u00e9 *), 95 (* _ *), 32 (* space *), 11 (* \x0b *), 46 (* . *), 45 (* - *), 47 (* / *), 33 (* ! *)}

ShortStrings == UNION {[1..n -> SanAlphabet] : n \in 0..MaxLen}

Pad(n) == [i \in 1..n |-> 97 (* a *)]

\* short strings, and strings whose length is around the limit
SanInputs ==
    ShortStrings \cup
    {Pad(MaxNameLen - k) \o s : k \in 0..MaxLen, s \in ShortStrings}

SanitizeCall ==
    /\ sanOut = <<>>
    /\ sanOut' = <<sanitize_filename(sanIn)>>
    /\ UNCHANGED <<sanIn, optVars, dlVars, issueVars>>

InitSanitize ==
    /\ sanIn \in SanInputs
    /\ sanOut = <<>>
    /\ OptIdle
    /\ DlIdle
    /\ IssueIdle

NextSanitize == SanitizeCall

SpecSanitize == InitSanitize /\ [][NextSanitize]_vars

\* ------------------------------------------------------------------------
\* get_platform_specific_options
\* ------------------------------------------------------------------------

\* A Python dict is a function from its keys; None is the string "None".

\* d.update(e)
Update(d, e) == e @@ d

UserAgent == "Mozilla/5.0 (Windows NT 10.0; Win64; x64) AppleWebKit/537.36 (KHTML, like Gecko) Chrome/120.0.0.0 Safari/537.36"
FormatNoAv1 == "bestvideo[height<=2160][ext=mp4][vcodec!*=av01]+bestaudio[ext=m4a]/bestvideo[height<=2160][ext=mp4]+bestaudio[ext=m4a]/best[height<=2160][ext=mp4]/best"
FormatMp4 == "bestvideo[height<=2160][ext=mp4]+bestaudio[ext=m4a]/best[height<=2160][ext=mp4]/best"

BaseHeaders ==
    "User-Agent" :> UserAgent @@
    "Accept" :> "text/html,application/xhtml+xml,application/xml;q=0.9,image/webp,*/*;q=0.8" @@
    "Accept-Language" :> "en-US,en;q=0.5" @@
    "Accept-Encoding" :> "gzip, deflate"

DefaultOptions ==
    "format" :> FormatNoAv1 @@
    "referer" :> "https://www.youtube.com/" @@
    "extract_flat" :> FALSE @@
    "quiet" :> FALSE @@
    "no_warnings" :> FALSE @@
    "nocheckcertificate" :> TRUE @@
    "ignoreerrors" :> FALSE @@
    "no_color" :> TRUE @@
    "extractor_retries" :> 5 @@
    "socket_timeout" :> 60 @@
    "retries" :> 10 @@
    "fragment_retries" :> 10 @@
    "skip_unavailable_fragments" :> TRUE @@
    "keepvideo" :> FALSE @@
    "writethumbnail" :> FALSE @@
    "writesubtitles" :> FALSE @@
    "writeautomaticsub" :> FALSE @@
    "noplaylist" :> TRUE @@
    "merge_output_format" :> "mp4" @@
    "geo_bypass" :> TRUE @@
    "geo_verification_proxy" :> "None" @@
    "postprocessors" :> <<"FFmpegVideoConvertor:mp4", "FFmpegMetadata">> @@
    "logger" :> "MyLogger" @@
    "http_headers" :> BaseHeaders

PlayerArgs ==
    "skip" :> <<"dash", "hls">> @@
    "player_client" :> <<"android", "web">> @@
    "player_skip" :> <<"js", "configs", "webpage">> @@
    "player_params" :> ("hl" :> "en" @@ "gl" :> "US")

TiktokOptions ==
    "format" :> FormatMp4 @@
    "referer" :> "https://www.tiktok.com/" @@
    "geo_bypass" :> TRUE @@
    "geo_verification_proxy" :> "None" @@
    "http_headers" :> (BaseHeaders @@ "Referer" :> "https://www.tiktok.com/") @@
    "extractor_args" :>
        ("tiktok" :>
            ("api_hostname" :> "api16-normal-c-useast1a.tiktokv.com" @@
             "app_version" :> "20.2.1" @@
             "device_id" :> "1" @@
             "manifest_app_version" :> "20.2.1" @@
             "openudid" :> "1" @@
             "os_version" :> "10" @@
             "resolution" :> "1080*1920" @@
             "sys_region" :> "US" @@
             "timezone_name" :> "America/New_York"))

YoutubeOptions ==
    "format" :> FormatNoAv1 @@
    "referer" :> "https://www.youtube.com/" @@
    "geo_bypass" :> TRUE @@
    "geo_verification_proxy" :> "None" @@
    "http_headers" :>
        (BaseHeaders @@
         "Referer" :> "https://www.youtube.com/" @@
         "Origin" :> "https://www.youtube.com") @@
    "extractor_args" :> ("youtube" :> PlayerArgs)

InstagramOptions ==
    "format" :> FormatMp4 @@
    "referer" :> "https://www.instagram.com/" @@
    "extract_flat" :> FALSE @@
    "noplaylist" :> TRUE @@
    "extract_flat_playlist" :> FALSE @@
    "geo_bypass" :> TRUE @@
    "geo_verification_proxy" :> "None" @@
    "http_headers" :>
        (BaseHeaders @@
         "Referer" :> "https://www.instagram.com/" @@
         "Origin" :> "https://www.instagram.com" @@
         "Sec-Fetch-Site" :> "same-origin" @@
         "Sec-Fetch-Mode" :> "cors" @@
         "Sec-Fetch-Dest" :> "empty" @@
         "X-IG-App-ID" :> "936619743392459" @@
         "X-ASBD-ID" :> "198387" @@
         "X-IG-WWW-Claim" :> "0") @@
    "extractor_args" :>
        ("instagram" :>
            ("login" :> "None" @@
             "password" :> "None" @@
             "client_id" :> "936619743392459" @@
             "client_secret" :> "1c2d3e4f5g6h7i8j9k0l" @@
             "extract_flat" :> FALSE @@
             "extract_flat_playlist" :> FALSE @@
             PlayerArgs))

TwitterOptions ==
    "format" :> FormatMp4 @@
    "referer" :> "https://twitter.com/" @@
    "geo_bypass" :> TRUE @@
    "geo_verification_proxy" :> "None" @@
    "http_headers" :> (BaseHeaders @@ "Referer" :> "https://twitter.com/")

S_tiktok == <<116,105,107,116,111,107,46,99,111,109>> (* tiktok.com *)
S_youtube == <<121,111,117,116,117,98,101,46,99,111,109>> (* youtube.com *)
S_youtu_be == <<121,111,117,116,117,46,98,101>> (* youtu.be *)
S_instagram == <<105,110,115,116,97,103,114,97,109,46,99,111,109>> (* instagram.com *)
S_twitter == <<116,119,105,116,116,101,114,46,99,111,109>> (* twitter.com *)
S_x == <<120,46,99,111,109>> (* x.com *)

\* tried first: 'tiktok.com' in url
IsTiktok(url) == Contains(url, S_tiktok)
\* tried second: 'youtube.com' in url or 'youtu.be' in url
IsYoutube(url) == Contains(url, S_youtube) \/ Contains(url, S_youtu_be)
\* tried third: 'instagram.com' in url
IsInstagram(url) == Contains(url, S_instagram)
\* tried last: 'twitter.com' in url or 'x.com' in url
IsTwitter(url) == Contains(url, S_twitter) \/ Contains(url, S_x)

\* a chain that tries YouTube before TikTok
get_platform_specific_options_Reordered(url) ==
    IF IsYoutube(url) THEN Update(DefaultOptions, YoutubeOptions)
    ELSE IF IsTiktok(url) THEN Update(DefaultOptions, TiktokOptions)
    ELSE IF IsInstagram(url) THEN Update(DefaultOptions, InstagramOptions)
    ELSE IF IsTwitter(url) THEN Update(DefaultOptions, TwitterOptions)
    ELSE DefaultOptions

get_platform_specific_options(url) ==
    IF IsTiktok(url) THEN Update(DefaultOptions, TiktokOptions)
    ELSE IF IsYoutube(url) THEN Update(DefaultOptions, YoutubeOptions)
    ELSE IF IsInstagram(url) THEN Update(DefaultOptions, InstagramOptions)
    ELSE IF IsTwitter(url) THEN Update(DefaultOptions, TwitterOptions)
    ELSE DefaultOptions

\* the pieces the URLs are made of: every marker the code looks for, a host
\* that holds one of them inside a longer name, and pieces that hold none
UrlParts ==
    {S_tiktok, S_youtube, S_youtu_be, S_instagram, S_twitter, S_x,
     <<110,101,116,102,108,105,120,46,99,111,109>> (* netflix.com *), <<104,116,116,112,115,58,47,47>> (* https:// *), <<101,120,97,109,112,108,101,46,111,114,103>> (* example.org *), <<47,118,47,49>> (* /v/1 *)}

UrlInputs ==
    LET Concat(parts) ==
            IF Len(parts) = 0 THEN <<>>
            ELSE IF Len(parts) = 1 THEN parts[1]
            ELSE IF Len(parts) = 2 THEN parts[1] \o parts[2]
            ELSE parts[1] \o parts[2] \o parts[3]
    IN  {Concat(p) : p \in UNION {[1..n -> UrlParts] : n \in 0..MaxUrlParts}}

OptionsCall ==
    /\ optOut = <<>>
    /\ optOut' = <<get_platform_specific_options(optUrl)>>
    /\ UNCHANGED <<sanVars, optUrl, dlVars, issueVars>>

InitOptions ==
    /\ optUrl \in UrlInputs
    /\ optOut = <<>>
    /\ SanIdle
    /\ DlIdle
    /\ IssueIdle

NextOptions == OptionsCall

SpecOptions == InitOptions /\ [][NextOptions]_vars

\* ------------------------------------------------------------------------
\* Python values, exceptions and responses
\* ------------------------------------------------------------------------

\* the values of Python the handlers meet: None, a bool, an int, a str, a
\* list of values, and a dict, kept as the sequence of its <<key, value>>
\* pairs in insertion order, the keys being strings
PyNone == [t |-> "NoneType", v |-> <<>>]
PyBool(b) == [t |-> "bool", v |-> b]
PyInt(n) == [t |-> "int", v |-> n]
PyStr(s) == [t |-> "str", v |-> s]
PyDict(items) == [t |-> "dict", v |-> items]
PyList(items) == [t |-> "list", v |-> items]

\* bool(x)
Truthy(x) ==
    CASE x.t = "NoneType" -> FALSE
      [] x.t = "bool" -> x.v
      [] x.t = "int" -> x.v # 0
      [] OTHER -> x.v # <<>>

\* isinstance(x, dict)
IsDict(x) == x.t = "dict"

\* type(x).__name__
TypeName(x) ==
    CASE x.t = "NoneType" -> <<78,111,110,101,84,121,112,101>> (* NoneType *)
      [] x.t = "bool" -> <<98,111,111,108>> (* bool *)
      [] x.t = "int" -> <<105,110,116>> (* int *)
      [] x.t = "str" -> <<115,116,114>> (* str *)
      [] x.t = "list" -> <<108,105,115,116>> (* list *)
      [] x.t = "dict" -> <<100,105,99,116>> (* dict *)

\* d.get(key, default)
Get(d, key, default) ==
    LET hits == {i \in DOMAIN d.v : d.v[i][1] = key}
    IN  IF hits = {} THEN default ELSE d.v[Min(hits)][2]

\* a or b
Or(a, b) == IF Truthy(a) THEN a ELSE b

\* the characters str.isprintable() does not hold for, from \x80 on (below,
\* they are the control characters \x00..\x1f and \x7f)
UnprintableRangesOther ==
    {<<128,160>>, <<173,173>>, <<888,889>>, <<896,899>>, <<907,907>>,
     <<909,909>>, <<930,930>>, <<1328,1328>>, <<1367,1368>>, <<1419,1420>>,
     <<1424,1424>>, <<1480,1487>>, <<1515,1518>>, <<1525,1541>>,
     <<1564,1564>>, <<1757,1757>>, <<1806,1807>>, <<1867,1868>>,
     <<1970,1983>>, <<2043,2044>>, <<2094,2095>>, <<2111,2111>>,
     <<2140,2141>>, <<2143,2143>>, <<2155,2159>>, <<2191,2199>>,
     <<2274,2274>>, <<2436,2436>>, <<2445,2446>>, <<2449,2450>>,
     <<2473,2473>>, <<2481,2481>>, <<2483,2485>>, <<2490,2491>>,
     <<2501,2502>>, <<2505,2506>>, <<2511,2518>>, <<2520,2523>>,
     <<2526,2526>>, <<2532,2533>>, <<2559,2560>>, <<2564,2564>>,
     <<2571,2574>>, <<2577,2578>>, <<2601,2601>>, <<2609,2609>>,
     <<2612,2612>>, <<2615,2615>>, <<2618,2619>>, <<2621,2621>>,
     <<2627,2630>>, <<2633,2634>>, <<2638,2640>>, <<2642,2648>>,
     <<2653,2653>>, <<2655,2661>>, <<2679,2688>>, <<2692,2692>>,
     <<2702,2702>>, <<2706,2706>>, <<2729,2729>>, <<2737,2737>>,
     <<2740,2740>>, <<2746,2747>>, <<2758,2758>>, <<2762,2762>>,
     <<2766,2767>>, <<2769,2783>>, <<2788,2789>>, <<2802,2808>>,
     <<2816,2816>>, <<2820,2820>>, <<2829,2830>>, <<2833,2834>>,
     <<2857,2857>>, <<2865,2865>>, <<2868,2868>>, <<2874,2875>>,
     <<2885,2886>>, <<2889,2890>>, <<2894,2900>>, <<2904,2907>>,
     <<2910,2910>>, <<2916,2917>>, <<2936,2945>>, <<2948,2948>>,
     <<2955,2957>>, <<2961,2961>>, <<2966,2968>>, <<2971,2971>>,
     <<2973,2973>>, <<2976,2978>>, <<2981,2983>>, <<2987,2989>>,
     <<3002,3005>>, <<3011,3013>>, <<3017,3017>>, <<3022,3023>>,
     <<3025,3030>>, <<3032,3045>>, <<3067,3071>>, <<3085,3085>>,
     <<3089,3089>>, <<3113,3113>>, <<3130,3131>>, <<3141,3141>>,
     <<3145,3145>>, <<3150,3156>>, <<3159,3159>>, <<3163,3164>>,
     <<3166,3167>>, <<3172,3173>>, <<3184,3190>>, <<3213,3213>>,
     <<3217,3217>>, <<3241,3241>>, <<3252,3252>>, <<3258,3259>>,
     <<3269,3269>>, <<3273,3273>>, <<3278,3284>>, <<3287,3292>>,
     <<3295,3295>>, <<3300,3301>>, <<3312,3312>>, <<3315,3327>>,
     <<3341,3341>>, <<3345,3345>>, <<3397,3397>>, <<3401,3401>>,
     <<3408,3411>>, <<3428,3429>>, <<3456,3456>>, <<3460,3460>>,
     <<3479,3481>>, <<3506,3506>>, <<3516,3516>>, <<3518,3519>>,
     <<3527,3529>>, <<3531,3534>>, <<3541,3541>>, <<3543,3543>>,
     <<3552,3557>>, <<3568,3569>>, <<3573,3584>>, <<3643,3646>>,
     <<3676,3712>>, <<3715,3715>>, <<3717,3717>>, <<3723,3723>>,
     <<3748,3748>>, <<3750,3750>>, <<3774,3775>>, <<3781,3781>>,
     <<3783,3783>>, <<3790,3791>>, <<3802,3803>>, <<3808,3839>>,
     <<3912,3912>>, <<3949,3952>>, <<3992,3992>>, <<4029,4029>>,
     <<4045,4045>>, <<4059,4095>>, <<4294,4294>>, <<4296,4300>>,
     <<4302,4303>>, <<4681,4681>>, <<4686,4687>>, <<4695,4695>>,
     <<4697,4697>>, <<4702,4703>>, <<4745,4745>>, <<4750,4751>>,
     <<4785,4785>>, <<4790,4791>>, <<4799,4799>>, <<4801,4801>>,
     <<4806,4807>>, <<4823,4823>>, <<4881,4881>>, <<4886,4887>>,
     <<4955,4956>>, <<4989,4991>>, <<5018,5023>>, <<5110,5111>>,
     <<5118,5119>>, <<5760,5760>>, <<5789,5791>>, <<5881,5887>>,
     <<5910,5918>>, <<5943,5951>>, <<5972,5983>>, <<5997,5997>>,
     <<6001,6001>>, <<6004,6015>>, <<6110,6111>>, <<6122,6127>>,
     <<6138,6143>>, <<6158,6158>>, <<6170,6175>>, <<6265,6271>>,
     <<6315,6319>>, <<6390,6399>>, <<6431,6431>>, <<6444,6447>>,
     <<6460,6463>>, <<6465,6467>>, <<6510,6511>>, <<6517,6527>>,
     <<6572,6575>>, <<6602,6607>>, <<6619,6621>>, <<6684,6685>>,
     <<6751,6751>>, <<6781,6782>>, <<6794,6799>>, <<6810,6815>>,
     <<6830,6831>>, <<6863,6911>>, <<6989,6991>>, <<7039,7039>>,
     <<7156,7163>>, <<7224,7226>>, <<7242,7244>>, <<7305,7311>>,
     <<7355,7356>>, <<7368,7375>>, <<7419,7423>>, <<7958,7959>>,
     <<7966,7967>>, <<8006,8007>>, <<8014,8015>>, <<8024,8024>>,
     <<8026,8026>>, <<8028,8028>>, <<8030,8030>>, <<8062,8063>>,
     <<8117,8117>>, <<8133,8133>>, <<8148,8149>>, <<8156,8156>>,
     <<8176,8177>>, <<8181,8181>>, <<8191,8207>>, <<8232,8239>>,
     <<8287,8303>>, <<8306,8307>>, <<8335,8335>>, <<8349,8351>>,
     <<8385,8399>>, <<8433,8447>>, <<8588,8591>>, <<9255,9279>>,
     <<9291,9311>>, <<11124,11125>>, <<11158,11158>>, <<11508,11512>>,
     <<11558,11558>>, <<11560,11564>>, <<11566,11567>>, <<11624,11630>>,
     <<11633,11646>>, <<11671,11679>>, <<11687,11687>>, <<11695,11695>>,
     <<11703,11703>>, <<11711,11711>>, <<11719,11719>>, <<11727,11727>>,
     <<11735,11735>>, <<11743,11743>>, <<11870,11903>>, <<11930,11930>>,
     <<12020,12031>>, <<12246,12271>>, <<12284,12288>>, <<12352,12352>>,
     <<12439,12440>>, <<12544,12548>>, <<12592,12592>>, <<12687,12687>>,
     <<12772,12783>>, <<12831,12831>>, <<42125,42127>>, <<42183,42191>>,
     <<42540,42559>>, <<42744,42751>>, <<42955,42959>>, <<42962,42962>>,
     <<42964,42964>>, <<42970,42993>>, <<43053,43055>>, <<43066,43071>>,
     <<43128,43135>>, <<43206,43213>>, <<43226,43231>>, <<43348,43358>>,
     <<43389,43391>>, <<43470,43470>>, <<43482,43485>>, <<43519,43519>>,
     <<43575,43583>>, <<43598,43599>>, <<43610,43611>>, <<43715,43738>>,
     <<43767,43776>>, <<43783,43784>>, <<43791,43792>>, <<43799,43807>>,
     <<43815,43815>>, <<43823,43823>>, <<43884,43887>>, <<44014,44015>>,
     <<44026,44031>>, <<55204,55215>>, <<55239,55242>>, <<55292,63743>>,
     <<64110,64111>>, <<64218,64255>>, <<64263,64274>>, <<64280,64284>>,
     <<64311,64311>>, <<64317,64317>>, <<64319,64319>>, <<64322,64322>>,
     <<64325,64325>>, <<64451,64466>>, <<64912,64913>>, <<64968,64974>>,
     <<64976,65007>>, <<65050,65055>>, <<65107,65107>>, <<65127,65127>>,
     <<65132,65135>>, <<65141,65141>>, <<65277,65280>>, <<65471,65473>>,
     <<65480,65481>>, <<65488,65489>>, <<65496,65497>>, <<65501,65503>>,
     <<65511,65511>>, <<65519,65531>>, <<65534,65535>>, <<65548,65548>>,
     <<65575,65575>>, <<65595,65595>>, <<65598,65598>>, <<65614,65615>>,
     <<65630,65663>>, <<65787,65791>>, <<65795,65798>>, <<65844,65846>>,
     <<65935,65935>>, <<65949,65951>>, <<65953,65999>>, <<66046,66175>>,
     <<66205,66207>>, <<66257,66271>>, <<66300,66303>>, <<66340,66348>>,
     <<66379,66383>>, <<66427,66431>>, <<66462,66462>>, <<66500,66503>>,
     <<66518,66559>>, <<66718,66719>>, <<66730,66735>>, <<66772,66775>>,
     <<66812,66815>>, <<66856,66863>>, <<66916,66926>>, <<66939,66939>>,
     <<66955,66955>>, <<66963,66963>>, <<66966,66966>>, <<66978,66978>>,
     <<66994,66994>>, <<67002,67002>>, <<67005,67071>>, <<67383,67391>>,
     <<67414,67423>>, <<67432,67455>>, <<67462,67462>>, <<67505,67505>>,
     <<67515,67583>>, <<67590,67591>>, <<67593,67593>>, <<67638,67638>>,
     <<67641,67643>>, <<67645,67646>>, <<67670,67670>>, <<67743,67750>>,
     <<67760,67807>>, <<67827,67827>>, <<67830,67834>>, <<67868,67870>>,
     <<67898,67902>>, <<67904,67967>>, <<68024,68027>>, <<68048,68049>>,
     <<68100,68100>>, <<68103,68107>>, <<68116,68116>>, <<68120,68120>>,
     <<68150,68151>>, <<68155,68158>>, <<68169,68175>>, <<68185,68191>>,
     <<68256,68287>>, <<68327,68330>>, <<68343,68351>>, <<68406,68408>>,
     <<68438,68439>>, <<68467,68471>>, <<68498,68504>>, <<68509,68520>>,
     <<68528,68607>>, <<68681,68735>>, <<68787,68799>>, <<68851,68857>>,
     <<68904,68911>>, <<68922,69215>>, <<69247,69247>>, <<69290,69290>>,
     <<69294,69295>>, <<69298,69375>>, <<69416,69423>>, <<69466,69487>>,
     <<69514,69551>>, <<69580,69599>>, <<69623,69631>>, <<69710,69713>>,
     <<69750,69758>>, <<69821,69821>>, <<69827,69839>>, <<69865,69871>>,
     <<69882,69887>>, <<69941,69941>>, <<69960,69967>>, <<70007,70015>>,
     <<70112,70112>>, <<70133,70143>>, <<70162,70162>>, <<70207,70271>>,
     <<70279,70279>>, <<70281,70281>>, <<70286,70286>>, <<70302,70302>>,
     <<70314,70319>>, <<70379,70383>>, <<70394,70399>>, <<70404,70404>>,
     <<70413,70414>>, <<70417,70418>>, <<70441,70441>>, <<70449,70449>>,
     <<70452,70452>>, <<70458,70458>>, <<70469,70470>>, <<70473,70474>>,
     <<70478,70479>>, <<70481,70486>>, <<70488,70492>>, <<70500,70501>>,
     <<70509,70511>>, <<70517,70655>>, <<70748,70748>>, <<70754,70783>>,
     <<70856,70863>>, <<70874,71039>>, <<71094,71095>>, <<71134,71167>>,
     <<71237,71247>>, <<71258,71263>>, <<71277,71295>>, <<71354,71359>>,
     <<71370,71423>>, <<71451,71452>>, <<71468,71471>>, <<71495,71679>>,
     <<71740,71839>>, <<71923,71934>>, <<71943,71944>>, <<71946,71947>>,
     <<71956,71956>>, <<71959,71959>>, <<71990,71990>>, <<71993,71994>>,
     <<72007,72015>>, <<72026,72095>>, <<72104,72105>>, <<72152,72153>>,
     <<72165,72191>>, <<72264,72271>>, <<72355,72367>>, <<72441,72703>>,
     <<72713,72713>>, <<72759,72759>>, <<72774,72783>>, <<72813,72815>>,
     <<72848,72849>>, <<72872,72872>>, <<72887,72959>>, <<72967,72967>>,
     <<72970,72970>>, <<73015,73017>>, <<73019,73019>>, <<73022,73022>>,
     <<73032,73039>>, <<73050,73055>>, <<73062,73062>>, <<73065,73065>>,
     <<73103,73103>>, <<73106,73106>>, <<73113,73119>>, <<73130,73439>>,
     <<73465,73647>>, <<73649,73663>>, <<73714,73726>>, <<74650,74751>>,
     <<74863,74863>>, <<74869,74879>>, <<75076,77711>>, <<77811,77823>>,
     <<78895,82943>>, <<83527,92159>>, <<92729,92735>>, <<92767,92767>>,
     <<92778,92781>>, <<92863,92863>>, <<92874,92879>>, <<92910,92911>>,
     <<92918,92927>>, <<92998,93007>>, <<93018,93018>>, <<93026,93026>>,
     <<93048,93052>>, <<93072,93759>>, <<93851,93951>>, <<94027,94030>>,
     <<94088,94094>>, <<94112,94175>>, <<94181,94191>>, <<94194,94207>>,
     <<100344,100351>>, <<101590,101631>>, <<101641,110575>>,
     <<110580,110580>>, <<110588,110588>>, <<110591,110591>>,
     <<110883,110927>>, <<110931,110947>>, <<110952,110959>>,
     <<111356,113663>>, <<113771,113775>>, <<113789,113791>>,
     <<113801,113807>>, <<113818,113819>>, <<113824,118527>>,
     <<118574,118575>>, <<118599,118607>>, <<118724,118783>>,
     <<119030,119039>>, <<119079,119080>>, <<119155,119162>>,
     <<119275,119295>>, <<119366,119519>>, <<119540,119551>>,
     <<119639,119647>>, <<119673,119807>>, <<119893,119893>>,
     <<119965,119965>>, <<119968,119969>>, <<119971,119972>>,
     <<119975,119976>>, <<119981,119981>>, <<119994,119994>>,
     <<119996,119996>>, <<120004,120004>>, <<120070,120070>>,
     <<120075,120076>>, <<120085,120085>>, <<120093,120093>>,
     <<120122,120122>>, <<120127,120127>>, <<120133,120133>>,
     <<120135,120137>>, <<120145,120145>>, <<120486,120487>>,
     <<120780,120781>>, <<121484,121498>>, <<121504,121504>>,
     <<121520,122623>>, <<122655,122879>>, <<122887,122887>>,
     <<122905,122906>>, <<122914,122914>>, <<122917,122917>>,
     <<122923,123135>>, <<123181,123183>>, <<123198,123199>>,
     <<123210,123213>>, <<123216,123535>>, <<123567,123583>>,
     <<123642,123646>>, <<123648,124895>>, <<124903,124903>>,
     <<124908,124908>>, <<124911,124911>>, <<124927,124927>>,
     <<125125,125126>>, <<125143,125183>>, <<125260,125263>>,
     <<125274,125277>>, <<125280,126064>>, <<126133,126208>>,
     <<126270,126463>>, <<126468,126468>>, <<126496,126496>>,
     <<126499,126499>>, <<126501,126502>>, <<126504,126504>>,
     <<126515,126515>>, <<126520,126520>>, <<126522,126522>>,
     <<126524,126529>>, <<126531,126534>>, <<126536,126536>>,
     <<126538,126538>>, <<126540,126540>>, <<126544,126544>>,
     <<126547,126547>>, <<126549,126550>>, <<126552,126552>>,
     <<126554,126554>>, <<126556,126556>>, <<126558,126558>>,
     <<126560,126560>>, <<126563,126563>>, <<126565,126566>>,
     <<126571,126571>>, <<126579,126579>>, <<126584,126584>>,
     <<126589,126589>>, <<126591,126591>>, <<126602,126602>>,
     <<126620,126624>>, <<126628,126628>>, <<126634,126634>>,
     <<126652,126703>>, <<126706,126975>>, <<127020,127023>>,
     <<127124,127135>>, <<127151,127152>>, <<127168,127168>>,
     <<127184,127184>>, <<127222,127231>>, <<127406,127461>>,
     <<127491,127503>>, <<127548,127551>>, <<127561,127567>>,
     <<127570,127583>>, <<127590,127743>>, <<128728,128732>>,
     <<128749,128751>>, <<128765,128767>>, <<128884,128895>>,
     <<128985,128991>>, <<129004,129007>>, <<129009,129023>>,
     <<129036,129039>>, <<129096,129103>>, <<129114,129119>>,
     <<129160,129167>>, <<129198,129199>>, <<129202,129279>>,
     <<129620,129631>>, <<129646,129647>>, <<129653,129655>>,
     <<129661,129663>>, <<129671,129679>>, <<129709,129711>>,
     <<129723,129727>>, <<129734,129743>>, <<129754,129759>>,
     <<129768,129775>>, <<129783,129791>>, <<129939,129939>>,
     <<129995,130031>>, <<130042,131071>>, <<173792,173823>>,
     <<177977,177983>>, <<178206,178207>>, <<183970,183983>>,
     <<191457,194559>>, <<195102,196607>>, <<201547,917759>>,
     <<918000,1114111>>}

\* str(n) of an int
RECURSIVE IntText(_)
IntText(n) ==
    IF n < 0 THEN <<45 (* - *)>> \o IntText(-n)
    ELSE IF n < 10 THEN <<48 (* 0 *) + n>>
    ELSE IntText(n \div 10) \o <<48 (* 0 *) + (n % 10)>>

\* repr(s) of a str: in single quotes, or in double quotes when s holds a
\* single quote and no double quote; the quote and the backslash escaped,
\* \t \n \r by letter, every other unprintable character by its code
ReprStr(s) ==
    LET chars == {s[i] : i \in DOMAIN s}
        quote == IF 39 (* \' *) \in chars /\ 34 (* " *) \notin chars THEN 34 (* " *) ELSE 39 (* \' *)
        HexDigit(d) == IF d < 10 THEN 48 (* 0 *) + d ELSE 97 (* a *) + (d - 10)
        Hex(n, width) == [k \in 1..width |-> HexDigit((n \div (16 ^ (width - k))) % 16)]
        Code(c) ==
            IF c <= 255 THEN <<92,120>> (* \\x *) \o Hex(c, 2)
            ELSE IF c <= 65535 THEN <<92,117>> (* \\u *) \o Hex(c, 4)
            ELSE <<92,85>> (* \\U *) \o Hex(c, 8)
        Escaped(c) ==
            IF c = quote \/ c = 92 (* \\ *) THEN <<92 (* \\ *), c>>
            ELSE IF c = 9 (* \t *) THEN <<92,116>> (* \\t *)
            ELSE IF c = 10 (* \n *) THEN <<92,110>> (* \\n *)
            ELSE IF c = 13 (* \r *) THEN <<92,114>> (* \\r *)
            ELSE IF c < 32 \/ c = 127 THEN Code(c)
            ELSE IF c < 127 THEN <<c>>
            ELSE IF InRanges(c, UnprintableRangesOther) THEN Code(c)
            ELSE <<c>>
        Body[k \in 0..Len(s)] == IF k = 0 THEN <<>> ELSE Body[k - 1] \o Escaped(s[k])
    IN  <<quote>> \o Body[Len(s)] \o <<quote>>

\* repr(x)
RECURSIVE Repr(_)
Repr(x) ==
    LET Item(k) ==
            IF x.t = "list" THEN Repr(x.v[k])
            ELSE ReprStr(x.v[k][1]) \o <<58,32>> (* :  *) \o Repr(x.v[k][2])
        Items[k \in 0..Len(x.v)] ==
            IF k = 0 THEN <<>>
            ELSE IF k = 1 THEN Item(1)
            ELSE Items[k - 1] \o <<44,32>> (* ,  *) \o Item(k)
    IN  CASE x.t = "NoneType" -> <<78,111,110,101>> (* None *)
          [] x.t = "bool" -> IF x.v THEN <<84,114,117,101>> (* True *) ELSE <<70,97,108,115,101>> (* False *)
          [] x.t = "int" -> IntText(x.v)
          [] x.t = "str" -> ReprStr(x.v)
          [] x.t = "list" -> <<91 (* [ *)>> \o Items[Len(x.v)] \o <<93 (* ] *)>>
          [] x.t = "dict" -> <<123 (* { *)>> \o Items[Len(x.v)] \o <<125 (* } *)>>

\* the value formatted into an f-string: str(x)
Format(x) == IF x.t = "str" THEN x.v ELSE Repr(x)

NoError == [exc |-> "None", msg |-> <<>>]
Raised(exc, msg) == [exc |-> exc, msg |-> msg]

\* jsonify({'error': msg}), status
JsonError(status, msg) ==
    [kind |-> "json", status |-> status, error |-> msg,
     path |-> <<0, <<>>>>, download_name |-> <<>>]

\* ------------------------------------------------------------------------
\* check_ffmpeg, GET /health
\* ------------------------------------------------------------------------

\* subprocess.run(['ffmpeg', '-version'], check=True): it exits with 0, it
\* exits with another status (CalledProcessError), there is no such program
\* (FileNotFoundError), or the program may not be executed (PermissionError)
FfmpegStates == {"ok", "failing", "missing", "noexec"}

\* True, False for the two exceptions the function catches, and any other
\* exception leaves it
check_ffmpeg ==
    IF ffmpegState = "noexec"
    THEN [raised |-> TRUE, value |-> FALSE, exc |-> Raised("PermissionError", <<91,69,114,114,110,111,32,49,51,93,32,80,101,114,109,105,115,115,105,111,110,32,100,101,110,105,101,100,58,32,39,102,102,109,112,101,103,39>> (* [Errno 13] Permission denied: 'ffmpeg' *))]
    ELSE [raised |-> FALSE, value |-> ffmpegState = "ok", exc |-> NoError]

health_check ==
    [kind |-> "json", status |-> 200,
     body |-> ("status" :> "ok" @@ "message" :> "Video downloader is running")]

\* ------------------------------------------------------------------------
\* POST /download
\* ------------------------------------------------------------------------

\* temp_dir = None
NoDir == 0

max_retries == 3

DirNames == 1..MaxDirs

\* the workers a deployment may run
WorkerIds == {1, 2}


\* except yt_dlp.utils.DownloadError as e
DownloadErrorResponse(error_msg) ==
    IF Contains(error_msg, <<85,110,97,98,108,101,32,116,111,32,100,111,119,110,108,111,97,100,32,65,80,73,32,112,97,103,101>> (* Unable to download API page *)) THEN JsonError(400, <<65,80,73,32,97,99,99,101,115,115,32,102,97,105,108,101,100,46,32,84,104,101,32,118,105,100,101,111,32,109,105,103,104,116,32,98,101,32,114,101,103,105,111,110,45,98,108,111,99,107,101,100,32,111,114,32,112,114,105,118,97,116,101,46>> (* API access failed. The video might be region-blocked or private. *))
    ELSE IF Contains(error_msg, <<103,101,116,97,100,100,114,105,110,102,111,32,102,97,105,108,101,100>> (* getaddrinfo failed *)) THEN JsonError(500, <<78,101,116,119,111,114,107,32,99,111,110,110,101,99,116,105,111,110,32,101,114,114,111,114,46,32,80,108,101,97,115,101,32,99,104,101,99,107,32,121,111,117,114,32,105,110,116,101,114,110,101,116,32,99,111,110,110,101,99,116,105,111,110,46>> (* Network connection error. Please check your internet connection. *))
    ELSE IF Contains(error_msg, <<80,114,105,118,97,116,101,32,118,105,100,101,111>> (* Private video *)) THEN JsonError(400, <<84,104,105,115,32,118,105,100,101,111,32,105,115,32,112,114,105,118,97,116,101,32,97,110,100,32,99,97,110,110,111,116,32,98,101,32,100,111,119,110,108,111,97,100,101,100,46>> (* This video is private and cannot be downloaded. *))
    ELSE IF Contains(error_msg, <<86,105,100,101,111,32,117,110,97,118,97,105,108,97,98,108,101>> (* Video unavailable *)) THEN JsonError(400, <<84,104,105,115,32,118,105,100,101,111,32,105,115,32,117,110,97,118,97,105,108,97,98,108,101,32,111,114,32,104,97,115,32,98,101,101,110,32,114,101,109,111,118,101,100,46>> (* This video is unavailable or has been removed. *))
    ELSE JsonError(500, <<68,111,119,110,108,111,97,100,32,102,97,105,108,101,100,58,32>> (* Download failed:  *) \o error_msg)

\* except Exception as e, inside the with block
UnexpectedErrorResponse(msg) == JsonError(500, <<85,110,101,120,112,101,99,116,101,100,32,101,114,114,111,114,58,32>> (* Unexpected error:  *) \o msg)

\* except Exception as e, around the whole handler
ServerErrorResponse(msg) == JsonError(500, <<83,101,114,118,101,114,32,101,114,114,111,114,58,32>> (* Server error:  *) \o msg)

IdleRequest ==
    [pc |-> "idle",
     url |-> <<>>,
     temp_dir |-> NoDir,
     ydl_opts |-> <<>>,
     attempt |-> 0,
     info |-> PyNone,
     download_info |-> PyNone,
     last_error |-> NoError,
     video_id |-> PyNone,
     video_caption |-> <<>>,
     downloaded_file |-> <<>>, \* the file found in the directory
     cleanup |-> FALSE,        \* the cleanup callback is registered
     cleaned |-> FALSE,        \* the callback has removed the directory
     responses |-> <<>>,       \* the responses the handler returned
     log |-> <<>>]             \* the library calls and the waits, in order

\* return response
Respond(q, response) ==
    [q EXCEPT !.pc = "sending", !.responses = Append(@, response)]

\* an exception leaving the inner try block
Raise(q, e) ==
    IF e.exc = "DownloadError"
    THEN Respond(q, DownloadErrorResponse(e.msg))
    ELSE Respond(q, UnexpectedErrorResponse(e.msg))

\* str(last_error) if last_error else "Unknown error"
ErrorText(last_error) == IF last_error # NoError THEN last_error.msg ELSE <<85,110,107,110,111,119,110,32,101,114,114,111,114>> (* Unknown error *)

\* the options given to the library: the platform's, the output template
\* and the settings added for reliability
ReliabilityOptions ==
    "socket_timeout" :> 120 @@
    "retries" :> 20 @@
    "fragment_retries" :> 20 @@
    "extractor_retries" :> 10 @@
    "skip_unavailable_fragments" :> TRUE @@
    "ignoreerrors" :> TRUE @@
    "no_warnings" :> TRUE @@
    "quiet" :> TRUE @@
    "nocheckcertificate" :> TRUE @@
    "geo_bypass" :> TRUE @@
    "geo_verification_proxy" :> "None"

ReliabilityHeaders ==
    "User-Agent" :> UserAgent @@
    "Accept" :> "*/*" @@
    "Accept-Language" :> "en-US,en;q=0.9" @@
    "Accept-Encoding" :> "gzip, deflate" @@
    "Connection" :> "keep-alive" @@
    "Cache-Control" :> "no-cache" @@
    "Pragma" :> "no-cache"

DownloadOptions(url, temp_dir) ==
    LET o1 == Update(get_platform_specific_options(url),
                     "outtmpl" :> <<temp_dir, "%(id)s.%(ext)s">>)
        o2 == Update(o1, ReliabilityOptions)
    IN  [o2 EXCEPT !["http_headers"] = Update(@, ReliabilityHeaders)]

\* str(uuid.uuid4())[:8]: eight hexadecimal digits, drawn anew at each
\* evaluation
Uuids == {<<49,97,50,98,51,99,52,100>> (* 1a2b3c4d *), <<50,98,100,55,49,97,49,53>> (* 2bd71a15 *)}

\* re.sub(pattern, repl, x) with x not a str
TypeErrorText(x) ==
    <<101,120,112,101,99,116,101,100,32,115,116,114,105,110,103,32,111,114,32,98,121,116,101,115,45,108,105,107,101,32,111,98,106,101,99,116,44,32,103,111,116,32,39>> (* expected string or bytes-like object, got ' *) \o TypeName(x) \o <<39>> (* ' *)

\* the block "if 'formats' in info": len(formats) and fmt.get(...) for the
\* first five formats; the exception it raises when formats is no sequence
\* of dicts, NoError otherwise
DebugFormats(info) ==
    LET formats == Get(info, <<102,111,114,109,97,116,115>> (* formats *), PyNone)
        HasNoGet(x) ==
            Raised("AttributeError",
                   <<39>> (* ' *) \o TypeName(x) \o <<39,32,111,98,106,101,99,116,32,104,97,115,32,110,111,32,97,116,116,114,105,98,117,116,101,32,39,103,101,116,39>> (* ' object has no attribute 'get' *))
        bad == {k \in 1..Min({5, Len(formats.v)}) : ~IsDict(formats.v[k])}
    IN  IF \A k \in DOMAIN info.v : info.v[k][1] # <<102,111,114,109,97,116,115>> (* formats *) THEN NoError
        ELSE IF formats.t \in {"NoneType", "bool", "int"}
        THEN Raised("TypeError",
                    <<111,98,106,101,99,116,32,111,102,32,116,121,112,101,32,39>> (* object of type ' *) \o TypeName(formats) \o <<39,32,104,97,115,32,110,111,32,108,101,110,40,41>> (* ' has no len() *))
        ELSE IF formats.t = "dict"
        THEN Raised("TypeError", <<117,110,104,97,115,104,97,98,108,101,32,116,121,112,101,58,32,39,115,108,105,99,101,39>> (* unhashable type: 'slice' *))
        ELSE IF formats.t = "str"
        THEN IF formats.v = <<>> THEN NoError ELSE HasNoGet(formats)
        ELSE IF bad = {} THEN NoError ELSE HasNoGet(formats.v[Min(bad)])

\* raw_caption: the description, else the caption, else the title, else
\* 'video_<id>'
RawCaption(info, video_id) ==
    Or(Or(Get(info, <<100,101,115,99,114,105,112,116,105,111,110>> (* description *), PyStr(<<>>)), Get(info, <<99,97,112,116,105,111,110>> (* caption *), PyStr(<<>>))),
       Get(info, <<116,105,116,108,101>> (* title *), PyStr(<<118,105,100,101,111,95>> (* video_ *) \o Format(video_id))))

\* what follows the extraction loop: the checks of info and the caption;
\* uuid is the value uuid.uuid4() gives
AfterExtract(q, uuid) ==
    IF ~Truthy(q.info)
    THEN Respond(q, JsonError(400, <<67,111,117,108,100,32,110,111,116,32,101,120,116,114,97,99,116,32,118,105,100,101,111,32,105,110,102,111,114,109,97,116,105,111,110,58,32>> (* Could not extract video information:  *) \o ErrorText(q.last_error)))
    ELSE IF ~IsDict(q.info)
    THEN Respond(q, JsonError(400, <<73,110,118,97,108,105,100,32,118,105,100,101,111,32,105,110,102,111,114,109,97,116,105,111,110,32,102,111,114,109,97,116>> (* Invalid video information format *)))
    ELSE IF DebugFormats(q.info) # NoError
    THEN Raise(q, DebugFormats(q.info))
    ELSE
        LET video_id == Get(q.info, <<105,100>> (* id *), PyStr(uuid))
            raw_caption == RawCaption(q.info, video_id)
            q1 == [q EXCEPT !.video_id = video_id]
        IN  IF raw_caption.t # "str"
            THEN \* re.sub raises TypeError
                 Raise(q1, Raised("TypeError", TypeErrorText(raw_caption)))
            ELSE
                LET cleaned == sanitize_filename(raw_caption.v)
                IN  [q1 EXCEPT
                        !.video_caption =
                            IF cleaned = <<>>
                            THEN <<118,105,100,101,111,95>> (* video_ *) \o Format(video_id)
                            ELSE cleaned,
                        !.pc = "download",
                        !.attempt = 0,
                        !.download_info = PyNone,
                        !.last_error = NoError]

\* how a library call ended, as the log keeps it
Outcome(res) ==
    IF res.kind = "raise" THEN "raised"
    ELSE IF Truthy(res.value) THEN "result" ELSE "none"

\* the wait between two attempts: the loops wait after an attempt that
\* raised, unless it was the last one
WaitsAfter(res, attempt) == res.kind = "raise" /\ attempt < max_retries - 1

\* a loop that makes one pass too many
MoreAttempts_OffByOne(attempt) == attempt < max_retries

\* for attempt in range(max_retries): another pass follows this one
MoreAttempts(attempt) == attempt + 1 < max_retries

\* one pass of the loop "for attempt in range(max_retries)" around
\* ydl.extract_info(url, download=False)
ExtractStep(q, res, uuid) ==
    LET logged == [q EXCEPT !.log = Append(@, [op |-> "extract", outcome |-> Outcome(res)])]
    IN  IF res.kind = "return"
        THEN LET q1 == [logged EXCEPT !.info = res.value]
             IN  IF Truthy(res.value) THEN AfterExtract(q1, uuid)
                 ELSE IF MoreAttempts(q.attempt)
                 THEN [q1 EXCEPT !.attempt = @ + 1]
                 ELSE AfterExtract(q1, uuid)
        ELSE LET q1 == [logged EXCEPT !.last_error = res.exc]
             IN  IF WaitsAfter(res, q.attempt)
                 THEN [q1 EXCEPT !.pc = "extractSleep"]
                 ELSE IF MoreAttempts(q.attempt)
                 THEN [q1 EXCEPT !.attempt = @ + 1]
                 ELSE AfterExtract(q1, uuid)

F_mp4 == <<97,98,99,46,109,112,52>> (* abc.mp4 *)
F_webm == <<97,98,99,46,119,101,98,109>> (* abc.webm *)
F_mov == <<97,98,99,46,109,111,118>> (* abc.mov *)

\* f.endswith('.mp4') or f.endswith('.m4v') or f.endswith('.mov')
IsVideoFile(f) ==
    EndsWith(f, <<46,109,112,52>> (* .mp4 *)) \/ EndsWith(f, <<46,109,52,118>> (* .m4v *)) \/ EndsWith(f, <<46,109,111,118>> (* .mov *))

\* the files the handler may send: the video files of the listing, or for
\* an Instagram URL any file when there is no video file
FoundFiles(url, listing) ==
    LET downloaded_files == {f \in listing : IsVideoFile(f)}
    IN  IF downloaded_files # {} THEN downloaded_files
        ELSE IF Contains(url, S_instagram) THEN listing
        ELSE {}

\* the file is chosen: subprocess.run(['ffprobe', ...]) comes next, and the
\* handler waits for it
Found(q, file) == [q EXCEPT !.downloaded_file = file, !.pc = "ffprobe"]

\* after ffprobe, whatever it gave: send_file(...) and the registration of
\* the cleanup callback
SendFile(q) ==
    [Respond(q, [kind |-> "video", status |-> 200, error |-> <<>>,
                 path |-> <<q.temp_dir, q.downloaded_file>>,
                 download_name |-> q.video_caption \o <<46,109,112,52>> (* .mp4 *)])
        EXCEPT !.cleanup = TRUE]

\* a handler that does not check download_info after the loop
AfterDownload_Unchecked(q, listing, first) ==
    IF FoundFiles(q.url, listing) # {}
    THEN Found(q, first)
    ELSE IF Contains(q.url, S_instagram)
    THEN Respond(q, JsonError(500, <<86,105,100,101,111,32,100,111,119,110,108,111,97,100,101,100,32,98,117,116,32,102,105,108,101,32,110,111,116,32,102,111,117,110,100,46,32,84,104,101,32,112,111,115,116,32,109,105,103,104,116,32,98,101,32,112,114,105,118,97,116,101,32,111,114,32,110,111,116,32,99,111,110,116,97,105,110,32,97,32,118,105,100,101,111,46>> (* Video downloaded but file not found. The post might be private or not contain a video. *)))
    ELSE Respond(q, JsonError(500, <<86,105,100,101,111,32,100,111,119,110,108,111,97,100,101,100,32,98,117,116,32,102,105,108,101,32,110,111,116,32,102,111,117,110,100>> (* Video downloaded but file not found *)))

\* what follows the download loop, up to the choice of the file; first is
\* the file os.listdir gives first among those the handler may send
AfterDownload(q, listing, first) ==
    IF ~Truthy(q.download_info)
    THEN Respond(q, JsonError(500, <<70,97,105,108,101,100,32,116,111,32,100,111,119,110,108,111,97,100,32,118,105,100,101,111,58,32>> (* Failed to download video:  *) \o ErrorText(q.last_error)))
    ELSE IF FoundFiles(q.url, listing) # {}
    THEN Found(q, first)
    ELSE IF Contains(q.url, S_instagram)
    THEN Respond(q, JsonError(500, <<86,105,100,101,111,32,100,111,119,110,108,111,97,100,101,100,32,98,117,116,32,102,105,108,101,32,110,111,116,32,102,111,117,110,100,46,32,84,104,101,32,112,111,115,116,32,109,105,103,104,116,32,98,101,32,112,114,105,118,97,116,101,32,111,114,32,110,111,116,32,99,111,110,116,97,105,110,32,97,32,118,105,100,101,111,46>> (* Video downloaded but file not found. The post might be private or not contain a video. *)))
    ELSE Respond(q, JsonError(500, <<86,105,100,101,111,32,100,111,119,110,108,111,97,100,101,100,32,98,117,116,32,102,105,108,101,32,110,111,116,32,102,111,117,110,100>> (* Video downloaded but file not found *)))

\* one pass of the loop around download_ydl.extract_info(url, download=True)
DownloadStep(q, res, listing, first) ==
    LET logged == [q EXCEPT !.log = Append(@, [op |-> "download", outcome |-> Outcome(res)])]
    IN  IF res.kind = "return"
        THEN LET q1 == [logged EXCEPT !.download_info = res.value]
             IN  IF Truthy(res.value) THEN AfterDownload(q1, listing, first)
                 ELSE IF MoreAttempts(q.attempt)
                 THEN [q1 EXCEPT !.attempt = @ + 1]
                 ELSE AfterDownload(q1, listing, first)
        ELSE LET q1 == [logged EXCEPT !.last_error = res.exc]
             IN  IF WaitsAfter(res, q.attempt)
                 THEN [q1 EXCEPT !.pc = "downloadSleep"]
                 ELSE IF MoreAttempts(q.attempt)
                 THEN [q1 EXCEPT !.attempt = @ + 1]
                 ELSE AfterDownload(q1, listing, first)

\* time.sleep(2), then the next pass of the loop
SleepStep(q, loop) ==
    [q EXCEPT !.log = Append(@, [op |-> "sleep", outcome |-> "-"]),
              !.attempt = @ + 1,
              !.pc = loop]

\* a cleanup that removes every download directory
cleanup_All(temp_dir, failed, kept) ==
    IF temp_dir # NoDir /\ temp_dir \in DOMAIN fs
    THEN <<>>
    ELSE fs

\* cleanup(): shutil.rmtree(temp_dir) when the directory exists; when rmtree
\* raises, the callback logs a warning and the directory stays, with the
\* files of kept that rmtree had not removed yet
cleanup(temp_dir, failed, kept) ==
    IF temp_dir # NoDir /\ temp_dir \in DOMAIN fs
    THEN IF failed
         THEN [fs EXCEPT ![temp_dir] = @ \cap kept]
         ELSE [d \in DOMAIN fs \ {temp_dir} |-> fs[d]]
    ELSE fs

\* --- what the library and the client may do ---

InfoTitled ==
    PyDict(<<<<<<105,100>> (* id *), PyStr(<<97,98,99>> (* abc *))>>, <<<<116,105,116,108,101>> (* title *), PyStr(<<77,121,32,99,108,105,112,46,109,112,52>> (* My clip.mp4 *))>>>>)
InfoBlank ==
    PyDict(<<<<<<105,100>> (* id *), PyStr(<<97,98,99>> (* abc *))>>, <<<<100,101,115,99,114,105,112,116,105,111,110>> (* description *), PyStr(<<>>)>>,
             <<<<116,105,116,108,101>> (* title *), PyStr(<<95,95>> (* __ *))>>>>)
InfoAccent ==
    PyDict(<<<<<<105,100>> (* id *), PyStr(<<97,98,99>> (* abc *))>>, <<<<116,105,116,108,101>> (* title *), PyStr(<<67,97,102,233,32,20013,25991>> (* Caf\u00e9 \u4e2d\u6587 *))>>>>)
InfoNoTitle == PyDict(<<<<<<102,111,114,109,97,116,115>> (* formats *), PyList(<<>>)>>>>)
InfoNoneTitle == PyDict(<<<<<<105,100>> (* id *), PyStr(<<97,98,99>> (* abc *))>>, <<<<116,105,116,108,101>> (* title *), PyNone>>>>)
InfoListTitle ==
    PyDict(<<<<<<105,100>> (* id *), PyStr(<<97,98,99>> (* abc *))>>, <<<<116,105,116,108,101>> (* title *), PyList(<<PyStr(<<120>> (* x *))>>)>>>>)
InfoListId == PyDict(<<<<<<105,100>> (* id *), PyList(<<PyStr(<<120>> (* x *))>>)>>>>)
InfoNoFormats ==
    PyDict(<<<<<<105,100>> (* id *), PyStr(<<97,98,99>> (* abc *))>>, <<<<116,105,116,108,101>> (* title *), PyStr(<<77,121,32,99,108,105,112,46,109,112,52>> (* My clip.mp4 *))>>,
             <<<<102,111,114,109,97,116,115>> (* formats *), PyNone>>>>)
InfoEmpty == PyDict(<<>>)
InfoList == PyList(<<PyStr(<<97,98,99>> (* abc *))>>)

M_api == <<69,82,82,79,82,58,32,85,110,97,98,108,101,32,116,111,32,100,111,119,110,108,111,97,100,32,65,80,73,32,112,97,103,101>> (* ERROR: Unable to download API page *)
M_network == <<69,82,82,79,82,58,32,103,101,116,97,100,100,114,105,110,102,111,32,102,97,105,108,101,100>> (* ERROR: getaddrinfo failed *)
M_private == <<69,82,82,79,82,58,32,80,114,105,118,97,116,101,32,118,105,100,101,111>> (* ERROR: Private video *)
M_unavailable == <<69,82,82,79,82,58,32,86,105,100,101,111,32,117,110,97,118,97,105,108,97,98,108,101>> (* ERROR: Video unavailable *)
M_both == <<69,82,82,79,82,58,32,86,105,100,101,111,32,117,110,97,118,97,105,108,97,98,108,101,46,32,80,114,105,118,97,116,101,32,118,105,100,101,111>> (* ERROR: Video unavailable. Private video *)
M_unsupported == <<69,82,82,79,82,58,32,85,110,115,117,112,112,111,114,116,101,100,32,85,82,76>> (* ERROR: Unsupported URL *)
M_timeout == <<116,105,109,101,100,32,111,117,116>> (* timed out *)

Returned(value) == [kind |-> "return", value |-> value, exc |-> NoError]
Raising(e) == [kind |-> "raise", value |-> PyNone, exc |-> e]

LibraryErrors ==
    {Raised("DownloadError", m) :
        m \in {M_api, M_network, M_private, M_unavailable, M_both, M_unsupported}}
    \cup {Raised("TimeoutError", M_timeout)}

ExtractResults ==
    {Returned(v) : v \in {PyNone, InfoEmpty, InfoTitled, InfoBlank, InfoAccent,
                          InfoNoTitle, InfoNoneTitle, InfoListTitle, InfoListId,
                          InfoNoFormats, InfoList}}
    \cup {Raising(e) : e \in LibraryErrors}

DownloadResults ==
    {Returned(v) : v \in {PyNone, InfoTitled}}
    \cup {Raising(e) : e \in LibraryErrors}

\* the files a download attempt may leave in the directory
FileSets == {{}, {F_mp4}, {F_webm}, {F_webm, F_mov}}

\* request.form.get('url', ''): missing or empty, blank, and URLs
FormUrls ==
    {<<>>, <<32,32>> (*    *), <<11,160>> (* \x0b\u00a0 *), <<32,104,116,116,112,115,58,47,47,121,111,117,116,117,46,98,101,47,97,98,99,32>> (*  https://youtu.be/abc  *),
     <<104,116,116,112,115,58,47,47,119,119,119,46,105,110,115,116,97,103,114,97,109,46,99,111,109,47,114,101,101,108,47,120,121,122>> (* https://www.instagram.com/reel/xyz *)}

\* str(e) of the OSError that os.mkdir raised inside tempfile.mkdtemp: the
\* error number, its text and the path it tried, which is the directory for
\* temporary files and 'tmp' with eight random characters
MkdtempErrors ==
    {text \o <<58,32,39>> (* : ' *) \o path \o <<39>> (* ' *) :
        text \in {<<91,69,114,114,110,111,32,50,56,93,32,78,111,32,115,112,97,99,101,32,108,101,102,116,32,111,110,32,100,101,118,105,99,101>> (* [Errno 28] No space left on device *),
                  <<91,69,114,114,110,111,32,49,93,32,79,112,101,114,97,116,105,111,110,32,110,111,116,32,112,101,114,109,105,116,116,101,100>> (* [Errno 1] Operation not permitted *)},
        path \in {<<47,116,109,112,47,116,109,112,107,51,118,95,57,120,50,97>> (* /tmp/tmpk3v_9x2a *), <<47,116,109,112,47,116,109,112,48,113,122,55,104,119,95,101>> (* /tmp/tmp0qz7hw_e *)}}

\* --- the steps of download_video ---

\* tempfile.mkdtemp(): the new directory, empty
mkdtemp(dir) == (dir :> {}) @@ fs

\* a handler that reads the url before it checks ffmpeg
StartStep_UrlFirst(q, form, dir, err) ==
    LET url == StripSpace(form)
    IN  IF url = <<>>
        THEN Respond([q EXCEPT !.url = url], JsonError(400, <<80,108,101,97,115,101,32,112,114,111,118,105,100,101,32,97,32,85,82,76>> (* Please provide a URL *)))
        ELSE IF check_ffmpeg.raised
        THEN Respond(q, ServerErrorResponse(check_ffmpeg.exc.msg))
        ELSE IF ~check_ffmpeg.value
        THEN Respond(q, JsonError(500, <<102,102,109,112,101,103,32,105,115,32,114,101,113,117,105,114,101,100,32,98,117,116,32,110,111,116,32,105,110,115,116,97,108,108,101,100,46,32,80,108,101,97,115,101,32,105,110,115,116,97,108,108,32,102,102,109,112,101,103,32,109,97,110,117,97,108,108,121,46>> (* ffmpeg is required but not installed. Please install ffmpeg manually. *)))
        ELSE IF dir = NoDir
        THEN Respond([q EXCEPT !.url = url], ServerErrorResponse(err))
        ELSE [q EXCEPT !.url = url,
                       !.temp_dir = dir,
                       !.ydl_opts = DownloadOptions(url, dir),
                       !.pc = "extract"]

\* from the start of the handler to the creation of the YoutubeDL object;
\* dir is the name tempfile.mkdtemp chooses, NoDir when it raises OSError,
\* and err is then the text of the error
StartStep(q, form, dir, err) ==
    LET url == StripSpace(form)
    IN  IF check_ffmpeg.raised
        THEN Respond(q, ServerErrorResponse(check_ffmpeg.exc.msg))
        ELSE IF ~check_ffmpeg.value
        THEN Respond(q, JsonError(500, <<102,102,109,112,101,103,32,105,115,32,114,101,113,117,105,114,101,100,32,98,117,116,32,110,111,116,32,105,110,115,116,97,108,108,101,100,46,32,80,108,101,97,115,101,32,105,110,115,116,97,108,108,32,102,102,109,112,101,103,32,109,97,110,117,97,108,108,121,46>> (* ffmpeg is required but not installed. Please install ffmpeg manually. *)))
        ELSE IF url = <<>>
        THEN Respond([q EXCEPT !.url = url], JsonError(400, <<80,108,101,97,115,101,32,112,114,111,118,105,100,101,32,97,32,85,82,76>> (* Please provide a URL *)))
        ELSE IF dir = NoDir
        THEN Respond([q EXCEPT !.url = url], ServerErrorResponse(err))
        ELSE [q EXCEPT !.url = url,
                       !.temp_dir = dir,
                       !.ydl_opts = DownloadOptions(url, dir),
                       !.pc = "extract"]

DlStart(r, form, dir, err) ==
    /\ r \in workers
    /\ req[r].pc = "idle"
    /\ dir \notin DOMAIN fs
    /\ req' = [req EXCEPT ![r] = StartStep(req[r], form, dir, err)]
    /\ fs' = IF req'[r].temp_dir # NoDir THEN mkdtemp(dir) ELSE fs
    /\ UNCHANGED <<workers, ffmpegState, healthLog, sanVars, optVars, issueVars>>

DlExtract(r, res, uuid) ==
    /\ r \in workers
    /\ req[r].pc = "extract"
    /\ req' = [req EXCEPT ![r] = ExtractStep(req[r], res, uuid)]
    /\ UNCHANGED <<workers, ffmpegState, fs, healthLog, sanVars, optVars, issueVars>>

DlExtractSleep(r) ==
    /\ r \in workers
    /\ req[r].pc = "extractSleep"
    /\ req' = [req EXCEPT ![r] = SleepStep(req[r], "extract")]
    /\ UNCHANGED <<workers, ffmpegState, fs, healthLog, sanVars, optVars, issueVars>>

\* the library writes files into the directory during the call; when the
\* loop is over the handler reads the directory
DlDownload(r, res, files) ==
    /\ r \in workers
    /\ req[r].pc = "download"
    /\ LET dir == req[r].temp_dir
           listing == fs[dir] \cup files
           found == FoundFiles(req[r].url, listing)
       IN  /\ fs' = [fs EXCEPT ![dir] = listing]
           /\ \E first \in (IF found = {} THEN {<<>>} ELSE found) :
                 req' = [req EXCEPT ![r] = DownloadStep(req[r], res, listing, first)]
    /\ UNCHANGED <<workers, ffmpegState, healthLog, sanVars, optVars, issueVars>>

DlDownloadSleep(r) ==
    /\ r \in workers
    /\ req[r].pc = "downloadSleep"
    /\ req' = [req EXCEPT ![r] = SleepStep(req[r], "download")]
    /\ UNCHANGED <<workers, ffmpegState, fs, healthLog, sanVars, optVars, issueVars>>

\* ffprobe has ended, while other requests ran: the response is built
DlSend(r) ==
    /\ r \in workers
    /\ req[r].pc = "ffprobe"
    /\ req' = [req EXCEPT ![r] = SendFile(req[r])]
    /\ UNCHANGED <<workers, ffmpegState, fs, healthLog, sanVars, optVars, issueVars>>

\* the response has been sent and is closed: its call_on_close callbacks
\* run; failed says that shutil.rmtree raised, kept what it left
DlClose(r, failed, kept) ==
    /\ r \in workers
    /\ req[r].pc = "sending"
    /\ req[r].cleanup \/ (~failed /\ kept = {})
    /\ req' = [req EXCEPT ![r].pc = "closed",
                          ![r].cleaned = req[r].cleanup /\ ~failed]
    /\ fs' = IF req[r].cleanup THEN cleanup(req[r].temp_dir, failed, kept) ELSE fs
    /\ UNCHANGED <<workers, ffmpegState, healthLog, sanVars, optVars, issueVars>>

\* GET /health
Health ==
    /\ Len(healthLog) < MaxHealth
    /\ healthLog' = Append(healthLog, [ffmpeg |-> ffmpegState, response |-> health_check])
    /\ UNCHANGED <<workers, ffmpegState, req, fs, sanVars, optVars, issueVars>>

\* ffmpeg is installed on the host, removed from it, or changed
EnvFfmpeg ==
    /\ \E s \in FfmpegStates : s # ffmpegState /\ ffmpegState' = s
    /\ UNCHANGED <<workers, req, fs, healthLog, sanVars, optVars, issueVars>>

Init ==
    /\ workers = {1}
    /\ ffmpegState \in FfmpegStates
    /\ req = [r \in workers |-> IdleRequest]
    /\ fs = <<>>
    /\ healthLog = <<>>
    /\ SanIdle
    /\ OptIdle
    /\ IssueIdle

\* the steps of a request between its start and its response
DlProgress(r) ==
    \/ \E res \in ExtractResults, uuid \in Uuids : DlExtract(r, res, uuid)
    \/ DlExtractSleep(r)
    \/ \E res \in DownloadResults, files \in FileSets : DlDownload(r, res, files)
    \/ DlDownloadSleep(r)
    \/ DlSend(r)

Next ==
    \E r \in WorkerIds :
        \/ \E form \in FormUrls, dir \in DirNames \cup {NoDir}, err \in MkdtempErrors :
              DlStart(r, form, dir, err)
        \/ \E res \in ExtractResults, uuid \in Uuids : DlExtract(r, res, uuid)
        \/ DlExtractSleep(r)
        \/ \E res \in DownloadResults, files \in FileSets : DlDownload(r, res, files)
        \/ DlDownloadSleep(r)
        \/ DlSend(r)
        \/ \E failed \in BOOLEAN, kept \in SUBSET UNION FileSets : DlClose(r, failed, kept)

Spec == Init /\ [][Next]_vars

InitHealth ==
    /\ workers = {}
    /\ ffmpegState \in FfmpegStates
    /\ req = <<>>
    /\ fs = <<>>
    /\ healthLog = <<>>
    /\ SanIdle
    /\ OptIdle
    /\ IssueIdle

NextHealth == Health \/ EnvFfmpeg

SpecHealth == InitHealth /\ [][NextHealth]_vars

\* --- concurrent requests: app.run(threaded=True) serves each request on a
\* thread of its own; every worker of WorkerIds handles one request, and
\* the steps of the requests interleave. The library answers from a
\* shorter menu: an info or an error, a result or an error, a video file
\* or none.
ConcurrentForms == {<<>>, <<32,104,116,116,112,115,58,47,47,121,111,117,116,117,46,98,101,47,97,98,99,32>> (*  https://youtu.be/abc  *)}
ConcurrentExtractResults ==
    {Returned(InfoTitled), Raising(Raised("DownloadError", M_private))}
ConcurrentDownloadResults ==
    {Returned(InfoTitled), Raising(Raised("DownloadError", M_network))}
ConcurrentFileSets == {{}, {F_mp4}}

InitConcurrent ==
    /\ workers = WorkerIds
    /\ ffmpegState \in FfmpegStates
    /\ req = [r \in workers |-> IdleRequest]
    /\ fs = <<>>
    /\ healthLog = <<>>
    /\ SanIdle
    /\ OptIdle
    /\ IssueIdle

NextConcurrent ==
    \E r \in WorkerIds :
        \/ \E form \in ConcurrentForms, dir \in DirNames \cup {NoDir}, err \in MkdtempErrors :
              DlStart(r, form, dir, err)
        \/ \E res \in ConcurrentExtractResults, uuid \in Uuids : DlExtract(r, res, uuid)
        \/ DlExtractSleep(r)
        \/ \E res \in ConcurrentDownloadResults, files \in ConcurrentFileSets :
              DlDownload(r, res, files)
        \/ DlDownloadSleep(r)
        \/ DlSend(r)
        \/ \E failed \in BOOLEAN, kept \in SUBSET UNION FileSets : DlClose(r, failed, kept)

SpecConcurrent == InitConcurrent /\ [][NextConcurrent]_vars

\* ------------------------------------------------------------------------
\* POST /report-issue
\* ------------------------------------------------------------------------

\* the clock counts ticks from 2024-01-01 00:00:00, TicksPerSecond to the
\* second; n as width decimal digits
ZeroPad(n, width) ==
    [k \in 1..width |-> 48 (* 0 *) + ((n \div (10 ^ (width - k))) % 10)]

\* datetime.now().strftime('%Y%m%d%H%M%S'): the time cut to whole seconds
strftime(now) == <<50,48,50,52,48,49,48,49,48,48,48,48>> (* 202401010000 *) \o ZeroPad(now \div TicksPerSecond, 2)

\* datetime.now().isoformat(): the time with its microseconds, which are
\* left out when they are zero
isoformat(now) ==
    LET microsecond == ((now % TicksPerSecond) * 1000000) \div TicksPerSecond
    IN  <<50,48,50,52,45,48,49,45,48,49,84,48,48,58,48,48,58>> (* 2024-01-01T00:00: *) \o ZeroPad(now \div TicksPerSecond, 2)
        \o (IF microsecond = 0 THEN <<>> ELSE <<46 (* . *)>> \o ZeroPad(microsecond, 6))

\* os.path.join(ISSUES_DIR, f'issue_{issue["id"]}.json')
IssueFile(id) == <<105,115,115,117,101,115,47,105,115,115,117,101,95>> (* issues/issue_ *) \o id \o <<46,106,115,111,110>> (* .json *)

required_fields == <<<<116,121,112,101>> (* type *), <<117,114,108>> (* url *), <<100,101,115,99,114,105,112,116,105,111,110>> (* description *)>>

\* a validation that looks only for absent fields, not for empty ones
MissingFields_AbsentOnly(data) ==
    {i \in 1..Len(required_fields) :
        \A k \in DOMAIN data.v : data.v[k][1] # required_fields[i]}

\* the fields of required_fields that data lacks or holds empty, by position
MissingFields(data) ==
    {i \in 1..Len(required_fields) : ~Truthy(Get(data, required_fields[i], PyNone))}

\* the issue object, from the id read before and the clock read now for the
\* timestamp
IssueDocument(data, id, now) ==
    [id |-> id,
     timestamp |-> isoformat(now),
     type |-> Get(data, <<116,121,112,101>> (* type *), PyNone),
     url |-> Get(data, <<117,114,108>> (* url *), PyNone),
     description |-> Get(data, <<100,101,115,99,114,105,112,116,105,111,110>> (* description *), PyNone),
     status |-> <<110,101,119>> (* new *)]

\* a str as JSON text with ensure_ascii: in double quotes; the quote and
\* the backslash escaped, \b \f \n \r \t by letter, every other character
\* outside ' ' .. '~' as \uXXXX, in two halves above U+FFFF
JsonStr(s) ==
    LET HexDigit(d) == IF d < 10 THEN 48 (* 0 *) + d ELSE 97 (* a *) + (d - 10)
        U(n) == <<92,117>> (* \\u *) \o [k \in 1..4 |-> HexDigit((n \div (16 ^ (4 - k))) % 16)]
        Escaped(c) ==
            IF c = 34 (* " *) \/ c = 92 (* \\ *) THEN <<92 (* \\ *), c>>
            ELSE IF c = 8 THEN <<92,98>> (* \\b *)
            ELSE IF c = 12 THEN <<92,102>> (* \\f *)
            ELSE IF c = 10 THEN <<92,110>> (* \\n *)
            ELSE IF c = 13 THEN <<92,114>> (* \\r *)
            ELSE IF c = 9 THEN <<92,116>> (* \\t *)
            ELSE IF c >= 32 /\ c <= 126 THEN <<c>>
            ELSE IF c <= 65535 THEN U(c)
            ELSE U(55296 + ((c - 65536) \div 1024)) \o U(56320 + ((c - 65536) % 1024))
        Body[k \in 0..Len(s)] == IF k = 0 THEN <<>> ELSE Body[k - 1] \o Escaped(s[k])
    IN  <<34 (* " *)>> \o Body[Len(s)] \o <<34 (* " *)>>

\* json.dumps(x, indent=2) of a value that stands depth levels deep
RECURSIVE JsonValue(_, _)
JsonValue(x, depth) ==
    LET Spaces(n) == [k \in 1..n |-> 32 (* space *)]
        Item(k) ==
            IF x.t = "list" THEN JsonValue(x.v[k], depth + 1)
            ELSE JsonStr(x.v[k][1]) \o <<58,32>> (* :  *) \o JsonValue(x.v[k][2], depth + 1)
        Items[k \in 0..Len(x.v)] ==
            IF k = 0 THEN <<>>
            ELSE IF k = 1 THEN Item(1)
            ELSE Items[k - 1] \o <<44>> (* , *) \o <<10>> \o Spaces(2 * (depth + 1)) \o Item(k)
        Block(open, close) ==
            IF x.v = <<>> THEN <<open, close>>
            ELSE <<open, 10>> \o Spaces(2 * (depth + 1)) \o Items[Len(x.v)]
                 \o <<10>> \o Spaces(2 * depth) \o <<close>>
    IN  CASE x.t = "NoneType" -> <<110,117,108,108>> (* null *)
          [] x.t = "bool" -> IF x.v THEN <<116,114,117,101>> (* true *) ELSE <<102,97,108,115,101>> (* false *)
          [] x.t = "int" -> IntText(x.v)
          [] x.t = "str" -> JsonStr(x.v)
          [] x.t = "list" -> Block(91 (* [ *), 93 (* ] *))
          [] x.t = "dict" -> Block(123 (* { *), 125 (* } *))

\* json.dump(issue, f, indent=2): the text of the issue object
json_dump(issue) ==
    JsonValue(PyDict(<<<<<<105,100>> (* id *), PyStr(issue.id)>>,
                       <<<<116,105,109,101,115,116,97,109,112>> (* timestamp *), PyStr(issue.timestamp)>>,
                       <<<<116,121,112,101>> (* type *), issue.type>>,
                       <<<<117,114,108>> (* url *), issue.url>>,
                       <<<<100,101,115,99,114,105,112,116,105,111,110>> (* description *), issue.description>>,
                       <<<<115,116,97,116,117,115>> (* status *), PyStr(issue.status)>>>>), 0)

\* jsonify({'error': msg}), status
IssueError(status, msg) ==
    [status |-> status, error |-> msg, message |-> <<>>, id |-> <<>>]
\* jsonify({'message': 'Issue reported successfully', 'id': id}), 200
IssueOk(id) ==
    [status |-> 200, error |-> <<>>, message |-> <<73,115,115,117,101,32,114,101,112,111,114,116,101,100,32,115,117,99,99,101,115,115,102,117,108,108,121>> (* Issue reported successfully *),
     id |-> id]

IdleReport ==
    [pc |-> "idle",
     data |-> PyNone,
     id |-> <<>>,             \* <<the id>> once the clock was read for it
     issue |-> <<>>,          \* <<the issue object>> once built
     wrote |-> <<>>,          \* <<file, what the file held after the write>>
     overwrote |-> FALSE,     \* the file existed when it was opened for writing
     response |-> <<>>]

\* the JSON bodies: two complete reports, reports with a field missing or
\* empty, and bodies that are no JSON object
ReportA ==
    PyDict(<<<<<<116,121,112,101>> (* type *), PyStr(<<98,117,103>> (* bug *))>>, <<<<117,114,108>> (* url *), PyStr(<<117,49>> (* u1 *))>>,
             <<<<100,101,115,99,114,105,112,116,105,111,110>> (* description *), PyStr(<<100,49>> (* d1 *))>>>>)
ReportB ==
    PyDict(<<<<<<100,101,115,99,114,105,112,116,105,111,110>> (* description *), PyInt(2)>>, <<<<117,114,108>> (* url *), PyStr(<<117,50>> (* u2 *))>>,
             <<<<116,121,112,101>> (* type *), PyStr(<<105,100,101,97>> (* idea *))>>>>)
ReportBodies ==
    {ReportA, ReportB,
     PyDict(<<<<<<117,114,108>> (* url *), PyStr(<<117,49>> (* u1 *))>>, <<<<100,101,115,99,114,105,112,116,105,111,110>> (* description *), PyStr(<<100,49>> (* d1 *))>>>>),
     PyDict(<<<<<<116,121,112,101>> (* type *), PyStr(<<98,117,103>> (* bug *))>>, <<<<117,114,108>> (* url *), PyStr(<<>>)>>,
              <<<<100,101,115,99,114,105,112,116,105,111,110>> (* description *), PyStr(<<100,49>> (* d1 *))>>>>),
     PyDict(<<<<<<116,121,112,101>> (* type *), PyStr(<<98,117,103>> (* bug *))>>, <<<<117,114,108>> (* url *), PyStr(<<117,49>> (* u1 *))>>>>),
     PyDict(<<<<<<116,121,112,101>> (* type *), PyStr(<<>>)>>, <<<<100,101,115,99,114,105,112,116,105,111,110>> (* description *), PyNone>>>>),
     PyDict(<<<<<<116,121,112,101>> (* type *), PyStr(<<98,117,103>> (* bug *))>>, <<<<117,114,108>> (* url *), PyStr(<<117,49>> (* u1 *))>>,
              <<<<100,101,115,99,114,105,112,116,105,111,110>> (* description *), PyInt(0)>>>>),
     PyDict(<<>>),
     PyList(<<PyStr(<<98,117,103>> (* bug *))>>),
     PyStr(<<98,117,103>> (* bug *)),
     PyNone}

\* request.get_json() and the check of the required fields; a body that is
\* no dict makes data.get raise, which the handler answers with 500
IssueStart(q, body) ==
    /\ issueReq[q].pc = "idle"
    /\ LET r0 == [issueReq[q] EXCEPT !.data = body]
       IN  IF ~IsDict(body)
           THEN issueReq' = [issueReq EXCEPT ![q] =
                      [r0 EXCEPT !.pc = "done",
                                 !.response = <<IssueError(500, <<70,97,105,108,101,100,32,116,111,32,114,101,112,111,114,116,32,105,115,115,117,101>> (* Failed to report issue *))>>]]
           ELSE IF MissingFields(body) # {}
           THEN issueReq' = [issueReq EXCEPT ![q] =
                      [r0 EXCEPT !.pc = "done",
                                 !.response =
                                    <<IssueError(400, <<77,105,115,115,105,110,103,32,114,101,113,117,105,114,101,100,32,102,105,101,108,100,58,32>> (* Missing required field:  *)
                                        \o required_fields[Min(MissingFields(body))])>>]]
           ELSE issueReq' = [issueReq EXCEPT ![q] = [r0 EXCEPT !.pc = "id"]]
    /\ UNCHANGED <<clock, issues, sanVars, optVars, dlVars>>

\* 'id': datetime.now().strftime('%Y%m%d%H%M%S'): the first reading of the
\* clock
IssueId(q) ==
    /\ issueReq[q].pc = "id"
    /\ issueReq' = [issueReq EXCEPT ![q] =
           [@ EXCEPT !.pc = "timestamp", !.id = <<strftime(clock)>>]]
    /\ UNCHANGED <<clock, issues, sanVars, optVars, dlVars>>

\* 'timestamp': datetime.now().isoformat(): the second reading of the clock,
\* which time and other requests may have passed since the first, and the
\* rest of the issue object
IssueStamp(q) ==
    /\ issueReq[q].pc = "timestamp"
    /\ issueReq' = [issueReq EXCEPT ![q] =
           [@ EXCEPT !.pc = "open",
                     !.issue = <<IssueDocument(issueReq[q].data, issueReq[q].id[1], clock)>>]]
    /\ UNCHANGED <<clock, issues, sanVars, optVars, dlVars>>

\* open(issue_file, 'w'): the file is created, or emptied when it exists;
\* ok is FALSE when open raises OSError
IssueOpen(q, ok) ==
    /\ issueReq[q].pc = "open"
    /\ LET file == IssueFile(issueReq[q].issue[1].id)
       IN  IF ok
           THEN /\ issues' = [f \in DOMAIN issues \cup {file} |->
                                 IF f = file THEN <<>> ELSE issues[f]]
                /\ issueReq' = [issueReq EXCEPT ![q] =
                       [@ EXCEPT !.pc = "dump",
                                 !.overwrote = file \in DOMAIN issues]]
           ELSE /\ issueReq' = [issueReq EXCEPT ![q] =
                       [@ EXCEPT !.pc = "done",
                                 !.response = <<IssueError(500, <<70,97,105,108,101,100,32,116,111,32,114,101,112,111,114,116,32,105,115,115,117,101>> (* Failed to report issue *))>>]]
                /\ UNCHANGED issues
    /\ UNCHANGED <<clock, sanVars, optVars, dlVars>>

\* json.dump(issue, f, indent=2) and the end of the with block: the text,
\* shorter than the buffer of the file, is written when the file is closed,
\* at the start of the file whatever other requests have written since it
\* was opened, and what the file held beyond the end of the text stays; ok
\* is FALSE when the write raises OSError (the disk is full): a text shorter
\* than a block of the file system is then not written at all
IssueDump(q, ok) ==
    /\ issueReq[q].pc = "dump"
    /\ LET issue == issueReq[q].issue[1]
           file == IssueFile(issue.id)
       IN  IF ok
           THEN /\ issues' = [issues EXCEPT ![file] =
                                 json_dump(issue) \o SubSeq(@, Len(json_dump(issue)) + 1, Len(@))]
                /\ issueReq' = [issueReq EXCEPT ![q] =
                       [@ EXCEPT !.pc = "written",
                                 !.wrote = <<file, issues'[file]>>]]
           ELSE /\ issueReq' = [issueReq EXCEPT ![q] =
                       [@ EXCEPT !.pc = "done",
                                 !.response = <<IssueError(500, <<70,97,105,108,101,100,32,116,111,32,114,101,112,111,114,116,32,105,115,115,117,101>> (* Failed to report issue *))>>]]
                /\ UNCHANGED issues
    /\ UNCHANGED <<clock, sanVars, optVars, dlVars>>

\* return jsonify({'message': ..., 'id': issue['id']}), 200
IssueRespond(q) ==
    /\ issueReq[q].pc = "written"
    /\ issueReq' = [issueReq EXCEPT ![q] =
           [@ EXCEPT !.pc = "done",
                     !.response = <<IssueOk(issueReq[q].issue[1].id)>>]]
    /\ UNCHANGED <<clock, issues, sanVars, optVars, dlVars>>

\* time passes
Tick ==
    /\ clock < MaxClock
    /\ clock' = clock + 1
    /\ UNCHANGED <<issueReq, issues, sanVars, optVars, dlVars>>

InitIssue ==
    /\ clock = 0
    /\ issueReq = [q \in 1..NumReports |-> IdleReport]
    /\ issues = <<>>
    /\ SanIdle
    /\ OptIdle
    /\ DlIdle

NextIssue ==
    \/ \E q \in 1..NumReports :
        \/ \E body \in ReportBodies : IssueStart(q, body)
        \/ IssueId(q)
        \/ IssueStamp(q)
        \/ \E ok \in BOOLEAN : IssueOpen(q, ok)
        \/ \E ok \in BOOLEAN : IssueDump(q, ok)
        \/ IssueRespond(q)
    \/ Tick

SpecIssue == InitIssue /\ [][NextIssue]_vars

\* ------------------------------------------------------------------------
\* Properties
\* ------------------------------------------------------------------------

Responded(q) == q.pc \in {"sending", "closed"}
Running(q) == q.pc \in {"extract", "extractSleep", "download", "downloadSleep", "ffprobe"}

\* the positions of the log that hold a call of the given kind
Calls(q, op) == {i \in 1..Len(q.log) : q.log[i].op = op}

\* C1: every temporary directory a POST /download request created is
\* deleted once the request is over (its response sent and closed),
\* whatever the outcome of the request.
C1_TempDirDeleted ==
    \A r \in workers :
        req[r].pc = "closed" =>
            (req[r].temp_dir = NoDir \/ req[r].temp_dir \notin DOMAIN fs)

\* C2: every issue document is written once: no request writes over an
\* existing issue file, and the ids returned to distinct successful
\* requests are distinct.
C2_IssueWrittenOnce ==
    /\ \A q \in DOMAIN issueReq : ~issueReq[q].overwrote
    /\ \A q1, q2 \in DOMAIN issueReq :
          (/\ q1 # q2
           /\ issueReq[q1].response # <<>>
           /\ issueReq[q2].response # <<>>
           /\ issueReq[q1].response[1].status = 200
           /\ issueReq[q2].response[1].status = 200)
          => issueReq[q1].response[1].id # issueReq[q2].response[1].id

\* the request failed because the library raised DownloadError during
\* extraction or during download and gave no result
LibraryFailed(q) ==
    /\ Responded(q)
    /\ q.last_error.exc = "DownloadError"
    /\ \/ ~Truthy(q.info)
       \/ Calls(q, "download") # {} /\ ~Truthy(q.download_info)

\* C3: when the library fails during extraction or download with a
\* DownloadError, the response is the one the substrings of the message
\* select: 400 API access failed, 500 network error, 400 private,
\* 400 unavailable, in that order, else 500 'Download failed: <message>'.
C3_LibraryErrorsMapped ==
    \A r \in workers :
        LibraryFailed(req[r]) =>
            req[r].responses = <<DownloadErrorResponse(req[r].last_error.msg)>>

\* C4: a POST /download request gives exactly one response, never more, a
\* video response or a JSON error with status 400 or 500; a request that
\* has not responded can take a step; the video response is given only
\* when extraction returned a dict, a download attempt returned a result
\* and the file sent was found in the request's own directory.
C4_OneResponse ==
    \A r \in workers :
        LET q == req[r]
        IN  /\ Len(q.responses) <= 1
            /\ Responded(q) <=> Len(q.responses) = 1
            /\ Running(q) => ENABLED DlProgress(r)
            /\ \A i \in 1..Len(q.responses) :
                  LET resp == q.responses[i]
                  IN  /\ \/ resp.kind = "video" /\ resp.status = 200
                         \/ resp.kind = "json" /\ resp.status \in {400, 500}
                      /\ resp.kind = "video" =>
                            /\ Truthy(q.info) /\ q.info.t = "dict"
                            /\ Truthy(q.download_info)
                            /\ q.temp_dir # NoDir
                            /\ resp.path[1] = q.temp_dir
                            /\ q.pc = "sending" =>
                                  /\ q.temp_dir \in DOMAIN fs
                                  /\ resp.path[2] \in fs[q.temp_dir]

\* a video response is being sent
C4_Witness ==
    \E r \in workers :
        /\ req[r].pc = "sending"
        /\ req[r].responses[1].kind = "video"

\* C5: the response of GET /health given while ffmpeg is missing differs
\* from the response given while ffmpeg is present.
C5_HealthReportsFfmpeg ==
    \A i, j \in DOMAIN healthLog :
        (healthLog[i].ffmpeg = "ok") # (healthLog[j].ffmpeg = "ok") =>
            healthLog[i].response # healthLog[j].response

\* C6: POST /report-issue answers 200 only after the request has written
\* the file issue_<id>.json, and the file then holds the JSON text of a
\* document with the fields id, timestamp, type, url, description and
\* status, where type, url and description are the non-empty values
\* submitted, status is 'new' and id is the id of the response.
C6_IssuePersisted ==
    \A q \in DOMAIN issueReq :
        LET r == issueReq[q]
            Submitted(key) == Get(r.data, key, PyNone)
        IN  (r.response # <<>> /\ r.response[1].status = 200) =>
                /\ r.wrote # <<>>
                /\ r.wrote[1] = <<105,115,115,117,101,115,47,105,115,115,117,101,95>> (* issues/issue_ *) \o r.response[1].id \o <<46,106,115,111,110>> (* .json *)
                /\ r.data.t = "dict"
                /\ \A key \in {<<116,121,112,101>> (* type *), <<117,114,108>> (* url *), <<100,101,115,99,114,105,112,116,105,111,110>> (* description *)} : Truthy(Submitted(key))
                /\ \E now \in 0..MaxClock :
                      r.wrote[2] =
                          json_dump([id |-> r.response[1].id,
                                     timestamp |-> isoformat(now),
                                     type |-> Submitted(<<116,121,112,101>> (* type *)),
                                     url |-> Submitted(<<117,114,108>> (* url *)),
                                     description |-> Submitted(<<100,101,115,99,114,105,112,116,105,111,110>> (* description *)),
                                     status |-> <<110,101,119>> (* new *)])

\* C7: sanitize_filename returns at most 100 characters, each a word
\* character, a space or a hyphen (so none of < > : " / \ | ? * and no
\* dot), with no two whitespace characters in a row and no space or
\* underscore at either end.
C7_SanitizedName ==
    \A k \in DOMAIN sanOut :
        LET s == sanOut[k]
        IN  /\ Len(s) <= 100
            /\ \A i \in 1..Len(s) :
                  /\ IsWord(s[i]) \/ s[i] = 32 (* space *) \/ s[i] = 45 (* - *)
                  /\ s[i] \notin {60 (* < *), 62 (* > *), 58 (* : *), 34 (* " *), 47 (* / *), 92 (* \\ *), 124 (* | *), 63 (* ? *), 42 (* * *), 46 (* . *)}
            /\ \A i \in 1..(Len(s) - 1) : ~(IsSpace(s[i]) /\ IsSpace(s[i + 1]))
            /\ s # <<>> => s[1] \notin {32 (* space *), 95 (* _ *)} /\ s[Len(s)] \notin {32 (* space *), 95 (* _ *)}

\* a name longer than the limit was cut, and the cut left a space or an
\* underscore at the end that was then removed
C7_Witness ==
    /\ sanOut # <<>>
    /\ Len(sanIn) > 100
    /\ Len(sanOut[1]) < 100
    /\ \A i \in 1..99 : sanIn[i] = 97 (* a *)

\* the platforms in the order the code tries them, with their markers and
\* their configurations
PlatformMarkers ==
    <<{S_tiktok}, {S_youtube, S_youtu_be}, {S_instagram}, {S_twitter, S_x}>>
PlatformOptions ==
    <<TiktokOptions, YoutubeOptions, InstagramOptions, TwitterOptions>>

\* the platforms one of whose markers occurs in the URL
PlatformsIn(url) ==
    {p \in DOMAIN PlatformMarkers : \E m \in PlatformMarkers[p] : Contains(url, m)}

\* C8: the options returned for a URL are the defaults overridden by the
\* configuration of the first platform, in the order tiktok, youtube,
\* instagram, twitter, one of whose markers occurs in the URL, and by that
\* configuration alone: referer, format, http_headers and extractor_args
\* are that platform's; a URL with no marker gets the defaults unchanged
\* (YouTube referer, no extractor_args).
C8_PlatformOptions ==
    \A k \in DOMAIN optOut :
        LET o == optOut[k]
            hits == PlatformsIn(optUrl)
        IN  IF hits = {}
            THEN /\ o = DefaultOptions
                 /\ o["referer"] = "https://www.youtube.com/"
                 /\ "extractor_args" \notin DOMAIN o
            ELSE LET c == PlatformOptions[Min(hits)]
                 IN  /\ DOMAIN o = DOMAIN DefaultOptions \cup DOMAIN c
                     /\ \A key \in DOMAIN o :
                           o[key] = IF key \in DOMAIN c THEN c[key]
                                    ELSE DefaultOptions[key]
                     /\ \A key \in {"referer", "format", "http_headers"} :
                           o[key] = c[key]
                     /\ "extractor_args" \in DOMAIN o <=> "extractor_args" \in DOMAIN c

\* the URL holds the marker of a later platform before the marker of
\* TikTok, and the options are TikTok's
C8_Witness ==
    /\ optOut # <<>>
    /\ IsTiktok(optUrl)
    /\ IsYoutube(optUrl) \/ IsInstagram(optUrl) \/ IsTwitter(optUrl)
    /\ SubSeq(optUrl, 1, Len(S_tiktok)) # S_tiktok
    /\ optOut[1]["referer"] = "https://www.tiktok.com/"

\* C9: within a request extraction is called at most 3 times and not
\* again after a call that returned info; download is called only after
\* extraction returned a dict, at most 3 times and not again after a call
\* that returned a result; every extraction call precedes every download
\* call; and once a loop has ended the request has responded or moved on,
\* so that a response comes after at most 6 library calls.
C9_RetryProtocol ==
    \A r \in workers :
        LET q == req[r]
            E == Calls(q, "extract")
            D == Calls(q, "download")
        IN  /\ Cardinality(E) <= 3
            /\ Cardinality(D) <= 3
            /\ Cardinality(E) + Cardinality(D) <= 6
            /\ \A i \in E, j \in D : i < j
            /\ \A i \in E : q.log[i].outcome = "result" => \A j \in E : j <= i
            /\ \A i \in D : q.log[i].outcome = "result" => \A j \in D : j <= i
            /\ D # {} =>
                  /\ \E i \in E : q.log[i].outcome = "result"
                  /\ Truthy(q.info) /\ q.info.t = "dict"
            /\ (Cardinality(E) = 3 /\ \A i \in E : q.log[i].outcome # "result")
                  => Responded(q)
            /\ (Cardinality(D) = 3 \/ \E i \in D : q.log[i].outcome = "result")
                  => Responded(q) \/ q.pc = "ffprobe"
            /\ Running(q) => ENABLED DlProgress(r)

\* six library calls were made: three extractions, the third one giving
\* the info, and three downloads
C9_Witness ==
    \E r \in workers :
        /\ Cardinality(Calls(req[r], "extract")) = 3
        /\ Cardinality(Calls(req[r], "download")) = 3
        /\ Responded(req[r])

\* C10: in both loops every attempt after the first comes right after a
\* wait, whether the attempt before raised or returned nothing, and no
\* wait follows the last attempt of a loop.
C10_WaitBeforeRetry ==
    \A r \in workers :
        LET q == req[r]
        IN  /\ \A i \in 2..Len(q.log) :
                  (q.log[i].op # "sleep" /\ q.log[i - 1].op # "sleep")
                      => q.log[i - 1].op # q.log[i].op
            /\ \A i \in 1..Len(q.log) :
                  q.log[i].op = "sleep" =>
                      \/ i < Len(q.log) /\ q.log[i + 1].op = q.log[i - 1].op
                      \/ i = Len(q.log) /\ q.pc \in {"extract", "download"}

\* C11: POST /download checks ffmpeg first and the url second, before it
\* creates anything: when ffmpeg is not available (it is missing, it fails
\* or it may not be executed) the one response is a 500 whatever the url
\* field holds; with ffmpeg and a url field that is missing, empty or only
\* whitespace it is 400 'Please provide a URL'; in both cases the request
\* has no temp directory, no directory exists and no library call was
\* made. The first part states it of the step an idle request takes on
\* each form value, the second of the requests made.
C11_PreconditionsFirst ==
    LET NoFfmpeg ==
            IF ffmpegState = "noexec"
            THEN JsonError(500, <<83,101,114,118,101,114,32,101,114,114,111,114,58,32,91,69,114,114,110,111,32,49,51,93,32,80,101,114,109,105,115,115,105,111,110,32,100,101,110,105,101,100,58,32,39,102,102,109,112,101,103,39>> (* Server error: [Errno 13] Permission denied: 'ffmpeg' *))
            ELSE JsonError(500, <<102,102,109,112,101,103,32,105,115,32,114,101,113,117,105,114,101,100,32,98,117,116,32,110,111,116,32,105,110,115,116,97,108,108,101,100,46,32,80,108,101,97,115,101,32,105,110,115,116,97,108,108,32,102,102,109,112,101,103,32,109,97,110,117,97,108,108,121,46>> (* ffmpeg is required but not installed. Please install ffmpeg manually. *))
        NoUrl == JsonError(400, <<80,108,101,97,115,101,32,112,114,111,118,105,100,101,32,97,32,85,82,76>> (* Please provide a URL *))
        Blank(form) == \A i \in DOMAIN form : form[i] \in Whitespace
        Untouched(q) == q.temp_dir = NoDir /\ q.ydl_opts = <<>> /\ q.log = <<>>
    IN  /\ \A r \in workers, form \in FormUrls, dir \in DirNames \cup {NoDir},
               err \in MkdtempErrors :
              req[r].pc = "idle" =>
                  LET q == StartStep(req[r], form, dir, err)
                  IN  /\ ffmpegState # "ok" =>
                            q.responses = <<NoFfmpeg>> /\ Untouched(q)
                      /\ (ffmpegState = "ok" /\ Blank(form)) =>
                            q.responses = <<NoUrl>> /\ Untouched(q)
                      /\ (ffmpegState = "ok" /\ ~Blank(form)) =>
                            q.responses # <<NoUrl>> /\ q.responses # <<NoFfmpeg>>
        /\ \A r \in workers :
              LET q == req[r]
              IN  /\ (q.pc # "idle" /\ ffmpegState # "ok") =>
                        /\ q.responses = <<NoFfmpeg>>
                        /\ q.responses[1].status = 500
                        /\ Untouched(q) /\ fs = <<>>
                  /\ (q.pc # "idle" /\ ffmpegState = "ok" /\ q.url = <<>>) =>
                        /\ q.responses = <<NoUrl>>
                        /\ Untouched(q) /\ fs = <<>>

\* a request made while ffmpeg was missing was answered and closed
C11_Witness ==
    \E r \in workers :
        /\ ffmpegState = "missing"
        /\ req[r].pc = "closed"
        /\ req[r].responses[1].status = 500
        /\ req[r].temp_dir = NoDir

\* a required field of a JSON object is absent or holds an empty value
Blank(data, field) ==
    \A k \in DOMAIN data.v : data.v[k][1] = field => ~Truthy(data.v[k][2])

\* the report is one the handler rejects: no JSON object, or one with a
\* blank required field
Rejected(data) ==
    ~IsDict(data) \/ \E f \in {<<116,121,112,101>> (* type *), <<117,114,108>> (* url *), <<100,101,115,99,114,105,112,116,105,111,110>> (* description *)} : Blank(data, f)

\* C12: a POST /report-issue whose JSON object has a missing or empty
\* type, url or description is answered 400 'Missing required field: <f>'
\* with <f> the first such field in the order type, url, description; a
\* body that is no JSON object is answered with an error status; the
\* request ends there, it opens and writes no issue file, and the step
\* that rejects it leaves the stored issues as they were.
C12_RejectedReportWritesNothing ==
    /\ [](\A q \in DOMAIN issueReq :
            LET rq == issueReq[q]
                first == IF Blank(rq.data, <<116,121,112,101>> (* type *)) THEN <<116,121,112,101>> (* type *)
                         ELSE IF Blank(rq.data, <<117,114,108>> (* url *)) THEN <<117,114,108>> (* url *)
                         ELSE <<100,101,115,99,114,105,112,116,105,111,110>> (* description *)
            IN  (rq.pc # "idle" /\ Rejected(rq.data)) =>
                    /\ rq.pc = "done"
                    /\ rq.id = <<>> /\ rq.issue = <<>> /\ rq.wrote = <<>> /\ ~rq.overwrote
                    /\ Len(rq.response) = 1
                    /\ IF IsDict(rq.data)
                       THEN rq.response[1] =
                              IssueError(400, <<77,105,115,115,105,110,103,32,114,101,113,117,105,114,101,100,32,102,105,101,108,100,58,32>> (* Missing required field:  *) \o first)
                       ELSE rq.response[1].status >= 400)
    /\ [][\A q \in DOMAIN issueReq :
            (issueReq[q].pc = "idle" /\ issueReq'[q].pc # "idle"
                /\ Rejected(issueReq'[q].data)) => issues' = issues]_vars

\* one report was stored and answered 200, and the file holds its document;
\* the other report, a JSON object with an empty url, was rejected with 400
C12_Witness ==
    \E q, s \in DOMAIN issueReq :
        /\ issueReq[s].pc = "done"
        /\ issueReq[s].response[1].status = 200
        /\ IssueFile(issueReq[s].id[1]) \in DOMAIN issues
        /\ issues[IssueFile(issueReq[s].id[1])] = json_dump(issueReq[s].issue[1])
        /\ issueReq[q].pc = "done"
        /\ IsDict(issueReq[q].data)
        /\ Rejected(issueReq[q].data)
        /\ issueReq[q].response[1] =
              IssueError(400, <<77,105,115,115,105,110,103,32,114,101,113,117,105,114,101,100,32,102,105,101,108,100,58,32,117,114,108>> (* Missing required field: url *))

\* C13: sanitize_filename never returns the empty string: an input that
\* is empty after cleaning gives 'youtube_video', and a name that is not
\* empty after cleaning is not emptied by the cut to 100 characters nor by
\* the final stripping; so download_video, given an info with that input
\* as its title, keeps the sanitized name and not its 'video_<id>'
\* replacement, and sends a download name longer than '.mp4'. The last
\* part states the same of the requests made to POST /download.
C13_NameNeverEmpty ==
    /\ \A k \in DOMAIN sanOut :
          LET cleaned == Strip(CollapseSpaces(ReplaceSpecial(RemoveInvalid(
                             RemoveExtension(sanIn)))), {32 (* space *), 95 (* _ *)})
              q == AfterExtract([IdleRequest EXCEPT
                       !.pc = "extract",
                       !.info = PyDict(<<<<<<105,100>> (* id *), PyStr(<<97,98,99>> (* abc *))>>,
                                         <<<<116,105,116,108,101>> (* title *), PyStr(sanIn)>>>>)],
                       <<49,97,50,98,51,99,52,100>> (* 1a2b3c4d *))
          IN  /\ sanOut[k] # <<>>
              /\ cleaned = <<>> => sanOut[k] = <<121,111,117,116,117,98,101,95,118,105,100,101,111>> (* youtube_video *)
              /\ cleaned # <<>> =>
                    /\ Truncate(cleaned) # <<>>
                    /\ FinalStrip(Truncate(cleaned)) # <<>>
                    /\ sanOut[k] = FinalStrip(Truncate(cleaned))
              /\ q.pc = "download"
              /\ q.video_caption = sanOut[k]
              /\ SendFile(Found(q, F_mp4)).responses[1].download_name = sanOut[k] \o <<46,109,112,52>> (* .mp4 *)
              /\ SendFile(Found(q, F_mp4)).responses[1].download_name # <<46,109,112,52>> (* .mp4 *)
    /\ \A r \in workers :
          LET q == req[r]
          IN  /\ q.pc \in {"download", "downloadSleep"} \/ q.video_caption # <<>> =>
                    /\ q.video_caption # <<>>
                    /\ q.video_caption =
                          sanitize_filename(RawCaption(q.info, q.video_id).v)
              /\ \A i \in 1..Len(q.responses) :
                    q.responses[i].kind = "video" =>
                        /\ q.responses[i].download_name = q.video_caption \o <<46,109,112,52>> (* .mp4 *)
                        /\ q.responses[i].download_name # <<46,109,112,52>> (* .mp4 *)

\* an input that is not empty but is empty after cleaning got the default
\* name
C13_Witness ==
    /\ sanOut = <<DefaultName>>
    /\ sanIn # <<>>
    /\ \E i \in 1..Len(sanIn) : sanIn[i] = 95 (* _ *)

\* the requests a directory belongs to: those that created it and have not
\* removed it
Owners(d) ==
    {r \in workers : req[r].temp_dir = d /\ ~req[r].cleaned}

\* the request is sending the file it found
Transferring(q) ==
    q.pc = "sending" /\ q.responses[1].kind = "video"

\* the request has found its file and has not sent it yet
Located(q) == q.pc = "ffprobe"

\* C14: under every interleaving of concurrent POST /download requests,
\* the directory of a request that has found its file, or is sending it,
\* exists and holds the file until the response is closed; every directory
\* belongs to exactly one request; a directory disappears only in the step
\* that closes the video response of the request it belongs to; and a step
\* of one request changes neither the state nor the directory of another.
C14_CleanupOwnDirAfterClose ==
    /\ [](\A r \in workers :
            /\ Located(req[r]) =>
                  /\ req[r].temp_dir \in DOMAIN fs
                  /\ req[r].downloaded_file \in fs[req[r].temp_dir]
            /\ Transferring(req[r]) =>
                  /\ req[r].temp_dir \in DOMAIN fs
                  /\ req[r].responses[1].path[1] = req[r].temp_dir
                  /\ req[r].responses[1].path[2] = req[r].downloaded_file
                  /\ req[r].responses[1].path[2] \in fs[req[r].temp_dir]
            /\ \A d \in DOMAIN fs : Cardinality(Owners(d)) = 1)
    /\ [][/\ \A d \in DOMAIN fs \ DOMAIN fs' :
                \E r \in workers :
                    /\ Owners(d) = {r}
                    /\ Transferring(req[r])
                    /\ req'[r].pc = "closed"
          /\ \A r \in workers :
                req'[r] # req[r] =>
                    /\ \A o \in workers \ {r} : req'[o] = req[o]
                    /\ \A d \in DOMAIN fs :
                          Owners(d) # {r} => d \in DOMAIN fs' /\ fs'[d] = fs[d]]_vars

\* two requests ran side by side, each in its own directory: one has sent
\* its file, closed its response and removed its directory while the
\* other has found its file in its own and has not sent it yet
C14_Witness ==
    \E r1, r2 \in workers :
        /\ r1 # r2
        /\ req[r1].pc = "closed" /\ req[r1].cleaned
        /\ req[r1].temp_dir \notin DOMAIN fs
        /\ Located(req[r2])
        /\ req[r2].temp_dir # req[r1].temp_dir
        /\ req[r2].temp_dir \in DOMAIN fs

====
